---- MODULE Spec2Model ----
(***************************************************************************)
(* Model of the purchase-order dashboard server (Express handlers over a   *)
(* PostgreSQL pool): the filter compiler buildWhere, the evaluation of the *)
(* predicate it builds on a joined order line, and /api/po/lines.          *)
(*                                                                         *)
(* Conventions.  A string is a sequence of one-character strings, so that  *)
(* split, trim, parseInt and padStart are computed and not assumed.  A     *)
(* value that may be undefined (a query-string field) or NULL (a column)   *)
(* is None or Some(v).  A JavaScript number is Num(n) or NaN.              *)
(***************************************************************************)
EXTENDS Integers, Sequences, FiniteSets, TLC

VARIABLES
    query,      \* req.query of the request under way (filter fields)
    line,       \* the joined order line the predicate is evaluated on
    built,      \* the result of buildWhere(query): [where, params]
    verdict,    \* what the WHERE clause does with line: accept/reject/error
    pc,         \* position of the filter pipeline
    dataset,    \* the rollup rows the data query of /api/po/lines groups
    lreq,       \* req.query of /api/po/lines: page, pageSize, sortBy, sortDir
    lsql,       \* what the handler put into dataSql: ORDER BY, LIMIT, OFFSET
    lres,       \* the response of /api/po/lines
    walk,       \* a client reading /api/po/lines page after page
    orders,     \* the joined order lines in the database, for the aggregations
    ares,       \* the response of an aggregation or typeahead endpoint
    treq,       \* the typeahead request: endpoint, q, tmplId
    picker,     \* the state of a typeahead picker component of the client
    app,        \* the state of the App component of the client and its load
    inflight,   \* the requests the server is handling, each with its queries
    auth        \* the mode, the credentials, the session store, the last answer

vars == <<query, line, built, verdict, pc, dataset, lreq, lsql, lres, walk,
          orders, ares, treq, picker, app, inflight, auth>>
linesVars == <<dataset, lreq, lsql, lres, walk>>
moreVars == <<orders, ares, treq, picker, app, inflight, auth>>

-----------------------------------------------------------------------------
(* Optional values and JavaScript numbers *)

None == <<>>
Some(v) == <<v>>
IsSome(o) == o # <<>>
Get(o) == o[1]

NaN == [nan |-> TRUE, v |-> 0]
Num(n) == [nan |-> FALSE, v |-> n]

\* JavaScript truthiness of a query-string field: defined and not ''.
Truthy(o) == IsSome(o) /\ Get(o) # <<>>

-----------------------------------------------------------------------------
(* Strings *)

Digits == <<"0", "1", "2", "3", "4", "5", "6", "7", "8", "9">>
IsDigit(c) == \E i \in 1..10 : Digits[i] = c
DigitVal(c) == (CHOOSE i \in 1..10 : Digits[i] = c) - 1
IsSpace(c) == c = " "

UpperCase == <<"A", "B", "C", "D", "E", "F", "G", "H", "I", "J", "K", "L", "M",
               "N", "O", "P", "Q", "R", "S", "T", "U", "V", "W", "X", "Y", "Z">>
LowerCase == <<"a", "b", "c", "d", "e", "f", "g", "h", "i", "j", "k", "l", "m",
               "n", "o", "p", "q", "r", "s", "t", "u", "v", "w", "x", "y", "z">>
Lower(c) ==
    IF \E i \in 1..26 : UpperCase[i] = c
    THEN LowerCase[CHOOSE i \in 1..26 : UpperCase[i] = c]
    ELSE c

StartsWith(s, sep) == Len(s) >= Len(sep) /\ SubSeq(s, 1, Len(sep)) = sep

\* String.prototype.split(sep) and the fields of split_part / string_to_array:
\* the pieces of s between the occurrences of the non-empty separator sep.
RECURSIVE Split(_, _)
Split(s, sep) ==
    LET hits == {i \in 1..Len(s) : StartsWith(SubSeq(s, i, Len(s)), sep)}
    IN  IF hits = {}
        THEN <<s>>
        ELSE LET i == CHOOSE h \in hits : \A g \in hits : h <= g
             IN  <<SubSeq(s, 1, i - 1)>> \o Split(SubSeq(s, i + Len(sep), Len(s)), sep)

\* String.prototype.trim
RECURSIVE TrimStart(_)
TrimStart(s) == IF s # <<>> /\ IsSpace(Head(s)) THEN TrimStart(Tail(s)) ELSE s
RECURSIVE TrimEnd(_)
TrimEnd(s) ==
    IF s # <<>> /\ IsSpace(s[Len(s)]) THEN TrimEnd(SubSeq(s, 1, Len(s) - 1)) ELSE s
Trim(s) == TrimEnd(TrimStart(s))

\* The value of a run of decimal digits, left to right.
RECURSIVE DigitsValue(_, _)
DigitsValue(s, acc) ==
    IF s = <<>> THEN acc ELSE DigitsValue(Tail(s), 10 * acc + DigitVal(Head(s)))

\* The longest prefix of s made of digits.
RECURSIVE DigitPrefix(_)
DigitPrefix(s) ==
    IF s # <<>> /\ IsDigit(Head(s)) THEN <<Head(s)>> \o DigitPrefix(Tail(s)) ELSE <<>>

\* parseInt(s, 10): leading white space is skipped, one sign is read, then the
\* longest run of digits; whatever follows is ignored; NaN without a digit.
parseInt(s) ==
    LET t    == TrimStart(s)
        neg  == t # <<>> /\ Head(t) = "-"
        sgn  == t # <<>> /\ (Head(t) = "-" \/ Head(t) = "+")
        body == IF sgn THEN Tail(t) ELSE t
        ds   == DigitPrefix(body)
    IN  IF ds = <<>> THEN NaN
        ELSE Num(IF neg THEN 0 - DigitsValue(ds, 0) ELSE DigitsValue(ds, 0))

\* Number(s) for the strings a 'YYYY-MM' split yields: '' is 0, a run of
\* digits its value, anything else NaN.
ToNumber(s) ==
    LET t == Trim(s)
    IN  IF t = <<>> THEN Num(0)
        ELSE IF \A i \in 1..Len(t) : IsDigit(t[i]) THEN Num(DigitsValue(t, 0))
        ELSE NaN

\* String(n) of a number: decimal digits, '-' for a negative one, 'NaN'.
RECURSIVE NatToStr(_)
NatToStr(n) ==
    IF n < 10 THEN <<Digits[n + 1]>> ELSE NatToStr(n \div 10) \o <<Digits[(n % 10) + 1]>>
NumToStr(x) ==
    IF x.nan THEN <<"N", "a", "N">>
    ELSE IF x.v < 0 THEN <<"-">> \o NatToStr(0 - x.v)
    ELSE NatToStr(x.v)

\* String.prototype.padStart(width, '0')
RECURSIVE PadStart(_, _)
PadStart(s, width) == IF Len(s) >= width THEN s ELSE PadStart(<<"0">> \o s, width)

\* Number.isFinite
IsFinite(x) == ~x.nan

\* x + 1 in JavaScript
PlusOne(x) == IF x.nan THEN NaN ELSE Num(x.v + 1)

-----------------------------------------------------------------------------
(* SQL values: bound parameters, dates, the columns of a joined order line *)

\* A bound parameter as node-postgres sends it: a string, or a number.
Text(s) == [t |-> "text", s |-> s, n |-> 0]
IntV(n) == [t |-> "int", s |-> <<>>, n |-> n]

\* The text the driver sends for a parameter.
AsText(p) == IF p.t = "text" THEN p.s ELSE NumToStr(Num(p.n))

\* The integer PostgreSQL reads from a parameter used as an integer: None when
\* its text is no integer literal (the statement then fails).
AsInt(p) ==
    LET s == AsText(p)
    IN  IF s # <<>> /\ \A i \in 1..Len(s) : IsDigit(s[i])
        THEN Some(DigitsValue(s, 0))
        ELSE None

IsLeap(y) == (y % 4 = 0 /\ y % 100 # 0) \/ y % 400 = 0
DaysIn(y, m) ==
    IF m = 2 THEN (IF IsLeap(y) THEN 29 ELSE 28)
    ELSE IF m \in {4, 6, 9, 11} THEN 30
    ELSE 31

Date(y, m, d) == [y |-> y, m |-> m, d |-> d]
DateKey(dt) == dt.y * 10000 + dt.m * 100 + dt.d
DateBefore(a, b) == DateKey(a) < DateKey(b)

\* $n::date of a text 'Y-M-D': None when the text is no calendar date (the
\* statement then fails).
DateCast(s) ==
    LET parts == Split(s, <<"-">>)
        nums  == [i \in 1..Len(parts) |-> ToNumber(parts[i])]
    IN  IF /\ Len(parts) = 3
           /\ \A i \in 1..3 : parts[i] # <<>> /\ ~nums[i].nan
           /\ nums[1].v >= 1
           /\ nums[2].v \in 1..12
           /\ nums[3].v >= 1
           /\ nums[3].v <= DaysIn(nums[1].v, nums[2].v)
        THEN Some(Date(nums[1].v, nums[2].v, nums[3].v))
        ELSE None

\* The separator of pc.complete_name, ' / '.
CategorySep == <<" ", "/", " ">>

\* split_part(s, sep, n): the n-th field, '' when there are fewer than n.
SplitPart(s, sep, n) ==
    LET fields == Split(s, sep)
    IN  IF n <= Len(fields) THEN fields[n] ELSE <<>>

\* NULLIF(s, v) on a non-NULL s.
NullIf(s, v) == IF s = v THEN None ELSE Some(s)

\* NULLIF(split_part(pc.complete_name, ' / ', n), ''); NULL when the product
\* has no category (the LEFT JOIN yields a NULL name).
CategoryLevel(l, n) ==
    IF IsSome(l.complete_name)
    THEN NullIf(SplitPart(Get(l.complete_name), CategorySep, n), <<>>)
    ELSE None

\* COALESCE(pp.default_code, pt.default_code)
Coalesce(a, b) == IF IsSome(a) THEN a ELSE b
Sku(l) == Coalesce(l.pp_code, l.pt_code)

\* text LIKE pattern, both lowered (ILIKE): % is any run, _ any one character.
RECURSIVE Like(_, _)
Like(t, p) ==
    IF p = <<>> THEN t = <<>>
    ELSE IF Head(p) = "%" THEN Like(t, Tail(p)) \/ (t # <<>> /\ Like(Tail(t), p))
    ELSE /\ t # <<>>
         /\ (Head(p) = "_" \/ Lower(Head(p)) = Lower(Head(t)))
         /\ Like(Tail(t), Tail(p))
\* col ILIKE pattern is TRUE; a NULL column makes it NULL, which is not TRUE.
ILike(col, pattern) == IsSome(col) /\ Like(Get(col), pattern)

-----------------------------------------------------------------------------
(* buildWhere: the filter compiler *)

\* The predicate is kept as its list of conjuncts.  A conjunct names its SQL
\* shape (kind), the category level it reads, and the placeholder numbers $n
\* it holds, in textual order.
Cond(kind, level, ph) == [kind |-> kind, level |-> level, ph |-> ph]

\* '2025-01', the default of dateFrom.
DefaultFrom == <<"2", "0", "2", "5", "-", "0", "1">>
\* '2099-01-01', the literal upper bound used without dateTo.
SentinelDate == Date(2099, 1, 1)

FilterFields ==
    {"dateFrom", "dateTo", "catL1", "catL2", "catL3", "search", "skus", "productTmplIds"}

WhereBase == [params |-> <<>>, conds |-> <<Cond("state", 0, <<>>)>>]

WhereDateFrom(q, acc) ==
    LET rawFrom == IF Truthy(q.dateFrom) THEN Get(q.dateFrom) ELSE DefaultFrom
        params  == Append(acc.params, Text(rawFrom \o <<"-", "0", "1">>))
    IN  [params |-> params,
         conds  |-> Append(acc.conds, Cond("date_ge", 0, <<Len(params)>>))]

\* NextMonth without the step to the next month: the bound is the first day
\* of the dateTo month itself.
NextMonthSameMonth(dateTo) ==
    LET parts == Split(dateTo, <<"-">>)
        y     == ToNumber(parts[1])
        m     == IF Len(parts) >= 2 THEN ToNumber(parts[2]) ELSE NaN
    IN  NumToStr(y) \o <<"-">> \o PadStart(NumToStr(m), 2) \o <<"-", "0", "1">>

\* The text bound for dateTo: the first day of the month after it.
NextMonth(dateTo) ==
    LET parts == Split(dateTo, <<"-">>)
        y     == ToNumber(parts[1])
        m     == IF Len(parts) >= 2 THEN ToNumber(parts[2]) ELSE NaN
    IN  IF ~m.nan /\ m.v = 12
        THEN NumToStr(PlusOne(y)) \o <<"-", "0", "1", "-", "0", "1">>
        ELSE NumToStr(y) \o <<"-">> \o PadStart(NumToStr(PlusOne(m)), 2)
                 \o <<"-", "0", "1">>

WhereDateTo(q, acc) ==
    IF Truthy(q.dateTo)
    THEN LET params == Append(acc.params, Text(NextMonth(Get(q.dateTo))))
         IN  [params |-> params,
              conds  |-> Append(acc.conds, Cond("date_lt", 0, <<Len(params)>>))]
    ELSE [params |-> acc.params,
          conds  |-> Append(acc.conds, Cond("date_lt_sentinel", 0, <<>>))]

\* WhereCategory testing the field for being defined instead of non-empty: an
\* empty field then compares the segment with ''.
WhereCategoryDefined(field, level, acc) ==
    IF IsSome(field)
    THEN LET params == Append(acc.params, Text(Get(field)))
         IN  [params |-> params,
              conds  |-> Append(acc.conds, Cond("cat", level, <<Len(params)>>))]
    ELSE acc

WhereCategory(field, level, acc) ==
    IF Truthy(field)
    THEN LET params == Append(acc.params, Text(Get(field)))
         IN  [params |-> params,
              conds  |-> Append(acc.conds, Cond("cat", level, <<Len(params)>>))]
    ELSE acc

\* WhereCategories with the catL3 conjunct pasted from catL2: it reads segment 2.
WhereCategoriesPasted(q, acc) ==
    WhereCategory(q.catL3, 2, WhereCategory(q.catL2, 2, WhereCategory(q.catL1, 1, acc)))

WhereCategories(q, acc) ==
    WhereCategory(q.catL3, 3, WhereCategory(q.catL2, 2, WhereCategory(q.catL1, 1, acc)))

\* WhereSearch binding the search text itself, without the % around it.
WhereSearchNoWildcards(q, acc) ==
    IF Truthy(q.search)
    THEN LET params == Append(acc.params, Text(Get(q.search)))
             n      == Len(params)
         IN  [params |-> params,
              conds  |-> Append(acc.conds, Cond("search", 0, <<n, n>>))]
    ELSE acc

WhereSearch(q, acc) ==
    IF Truthy(q.search)
    THEN LET params == Append(acc.params, Text(<<"%">> \o Get(q.search) \o <<"%">>))
             n      == Len(params)
         IN  [params |-> params,
              conds  |-> Append(acc.conds, Cond("search", 0, <<n, n>>))]
    ELSE acc

\* Placeholders numbered from params.length instead of params.length + 1.
PlaceholdersFromLength(paramsLength, n) == [i \in 1..n |-> paramsLength + (i - 1)]

\* list.map((_, i) => `$${params.length + 1 + i}`), i from 0
Placeholders(paramsLength, n) == [i \in 1..n |-> paramsLength + 1 + (i - 1)]

\* query.skus.split(',').map(trim).filter(Boolean)
SkuList(skus) ==
    LET tokens  == Split(skus, <<",">>)
        trimmed == [i \in 1..Len(tokens) |-> Trim(tokens[i])]
    IN  SelectSeq(trimmed, LAMBDA s : s # <<>>)

WhereSkus(q, acc) ==
    IF Truthy(q.skus) /\ Len(SkuList(Get(q.skus))) > 0
    THEN LET skuList == SkuList(Get(q.skus))
         IN  [params |-> acc.params \o [i \in 1..Len(skuList) |-> Text(skuList[i])],
              conds  |-> Append(acc.conds,
                                Cond("sku_in", 0,
                                     Placeholders(Len(acc.params), Len(skuList))))]
    ELSE acc

\* query.productTmplIds.split(',').map(parseInt(trim)).filter(finite and > 0)
TmplIds(productTmplIds) ==
    LET tokens == Split(productTmplIds, <<",">>)
        parsed == [i \in 1..Len(tokens) |-> parseInt(Trim(tokens[i]))]
    IN  SelectSeq(parsed, LAMBDA n : IsFinite(n) /\ n.v > 0)

WhereTmplIds(q, acc) ==
    IF Truthy(q.productTmplIds) /\ Len(TmplIds(Get(q.productTmplIds))) > 0
    THEN LET ids == TmplIds(Get(q.productTmplIds))
         IN  [params |-> acc.params \o [i \in 1..Len(ids) |-> IntV(ids[i].v)],
              conds  |-> Append(acc.conds,
                                Cond("tmpl_in", 0,
                                     Placeholders(Len(acc.params), Len(ids))))]
    ELSE acc

buildWhere(q) ==
    LET acc ==
            WhereTmplIds(q,
              WhereSkus(q,
                WhereSearch(q,
                  WhereCategories(q,
                    WhereDateTo(q,
                      WhereDateFrom(q, WhereBase))))))
    IN  [where |-> acc.conds, params |-> acc.params]

-----------------------------------------------------------------------------
(* pool.query(... WHERE ${where} ..., params): the predicate on one line *)

\* The placeholder numbers the predicate text holds, as a set.
Referenced(where) ==
    UNION {{where[i].ph[j] : j \in 1..Len(where[i].ph)} : i \in 1..Len(where)}

\* A conjunct PostgreSQL refuses: a placeholder without a parameter, a text
\* that is no date where a date is cast, no integer where an id is compared.
CondFails(c, params) ==
    \/ \E j \in 1..Len(c.ph) : c.ph[j] \notin 1..Len(params)
    \/ c.kind \in {"date_ge", "date_lt"} /\ DateCast(AsText(params[c.ph[1]])) = None
    \/ c.kind = "tmpl_in" /\ \E j \in 1..Len(c.ph) : AsInt(params[c.ph[j]]) = None

\* The statement fails as a whole: the parameters sent are not exactly the
\* placeholders $1..$n of the text, or a conjunct is refused.
StatementFails(b) ==
    \/ Referenced(b.where) # 1..Len(b.params)
    \/ \E i \in 1..Len(b.where) : CondFails(b.where[i], b.params)

\* The conjunct is TRUE on line l (FALSE and NULL both drop the line).
CondTrue(c, params, l) ==
    CASE c.kind = "state" -> l.state \in {"purchase", "done"}
      [] c.kind = "date_ge" ->
            ~DateBefore(l.date_order, Get(DateCast(AsText(params[c.ph[1]]))))
      [] c.kind = "date_lt" ->
            DateBefore(l.date_order, Get(DateCast(AsText(params[c.ph[1]]))))
      [] c.kind = "date_lt_sentinel" -> DateBefore(l.date_order, SentinelDate)
      [] c.kind = "cat" ->
            LET seg == CategoryLevel(l, c.level)
            IN  IsSome(seg) /\ Get(seg) = AsText(params[c.ph[1]])
      [] c.kind = "search" ->
            \/ ILike(Sku(l), AsText(params[c.ph[1]]))
            \/ ILike(l.name, AsText(params[c.ph[2]]))
      [] c.kind = "sku_in" ->
            /\ IsSome(Sku(l))
            /\ \E j \in 1..Len(c.ph) : Get(Sku(l)) = AsText(params[c.ph[j]])
      [] c.kind = "tmpl_in" ->
            \E j \in 1..Len(c.ph) : l.tmpl_id = Get(AsInt(params[c.ph[j]]))
      [] OTHER -> FALSE

\* What a query with WHERE ${where} does with line l.
WhereVerdict(b, l) ==
    IF StatementFails(b) THEN "error"
    ELSE IF \A i \in 1..Len(b.where) : CondTrue(b.where[i], b.params, l)
    THEN "accept"
    ELSE "reject"

-----------------------------------------------------------------------------
(* Inputs *)

\* Template ids of the lines are 1..MaxTmplId.
MaxTmplId == 3

Str_A == <<"A">>
Str_B == <<"B">>
Str_C == <<"C">>
Str_S == <<"S">>
Str_T == <<"T">>
Str_U == <<"U">>
Path_A == <<"A">>
Path_AB == <<"A", " ", "/", " ", "B">>
Path_ABC == <<"A", " ", "/", " ", "B", " ", "/", " ", "C">>
Path_AC == <<"A", " ", "/", " ", "C">>
Month_2024_12 == <<"2", "0", "2", "4", "-", "1", "2">>
Month_2025_02 == <<"2", "0", "2", "5", "-", "0", "2">>
Month_2025_12 == <<"2", "0", "2", "5", "-", "1", "2">>

Query(dateFrom, dateTo, catL1, catL2, catL3, search, skus, productTmplIds) ==
    [dateFrom |-> dateFrom, dateTo |-> dateTo, catL1 |-> catL1, catL2 |-> catL2,
     catL3 |-> catL3, search |-> search, skus |-> skus,
     productTmplIds |-> productTmplIds]

NoQuery == Query(None, None, None, None, None, None, None, None)
NoBuilt == [where |-> <<>>, params |-> <<>>]

\* The joined row of BASE_JOINS, with the columns the predicate reads.
Line(state, date_order, complete_name, pp_code, pt_code, name, tmpl_id) ==
    [state |-> state, date_order |-> date_order, complete_name |-> complete_name,
     pp_code |-> pp_code, pt_code |-> pt_code, name |-> name, tmpl_id |-> tmpl_id]

LineStates == {"draft", "purchase", "done"}
LineDates ==
    {Date(2024, 12, 31), Date(2025, 1, 1), Date(2025, 12, 31), Date(2026, 1, 1),
     Date(2099, 1, 1)}
LineCategories == {None, Some(Path_A), Some(Path_AB), Some(Path_ABC), Some(Path_AC)}
\* <<pp.default_code, pt.default_code, pt.name->>'en_US'>>
LineProducts ==
    {<<Some(Str_S), None, None>>, <<None, Some(Str_T), None>>, <<None, None, None>>,
     <<Some(Str_U), Some(Str_T), None>>, <<Some(Str_U), Some(Str_T), Some(<<"U", "s">>)>>}

Lines ==
    {Line(st, dt, cat, prod[1], prod[2], prod[3], id) :
        st \in LineStates, dt \in LineDates, cat \in LineCategories,
        prod \in LineProducts, id \in 1..MaxTmplId}

SomeLine == Line("purchase", Date(2025, 2, 28), Some(Path_ABC), Some(Str_S), None,
                 None, 1)

\* A query string that names field f with an empty value, as in '?catL1='.
EmptyField(f) == [NoQuery EXCEPT ![f] = Some(<<>>)]

\* The filter sets evaluated on lines: every combination of a value or none
\* per field, and the query strings whose fields are empty.
Queries ==
    {Query(df, dt, cats[1], cats[2], cats[3], se, sk, ids) :
        df \in {None, Some(Month_2025_02)},
        dt \in {None, Some(Month_2024_12), Some(Month_2025_12)},
        cats \in {<<None, None, None>>, <<Some(Str_A), None, None>>,
                  <<Some(Str_A), Some(Str_B), None>>,
                  <<Some(Str_A), Some(Str_B), Some(Str_C)>>,
                  <<Some(Str_A), None, Some(Str_C)>>, <<None, Some(Str_B), None>>},
        se \in {None, Some(<<"s">>)},
        sk \in {None, Some(<<"S", ",", "T">>)},
        ids \in {None, Some(<<"1", ",", "3">>)}}
    \cup {EmptyField(f) : f \in FilterFields}
    \cup {[f \in FilterFields |-> Some(<<>>)]}

-----------------------------------------------------------------------------
(* The filter pipeline of a request: buildWhere, then the query *)

NoRows == {}
NoLinesReq == [page |-> None, pageSize |-> None, sortBy |-> None, sortDir |-> None]
NoSql == [sortCol |-> "", sortDir |-> "", tieDir |-> "", page |-> NaN,
          pageSize |-> NaN, offset |-> NaN]
NoLinesRes == [status |-> 0, total |-> 0, page |-> NaN, pageSize |-> NaN, data |-> <<>>]
NoWalk == [on |-> FALSE, pages |-> <<>>]

\* The values of the variables a specification does not use.
NoOrders == {}
NoAggRes == [endpoint |-> "", status |-> 0, body |-> <<>>, queries |-> 0]
NoTypeahead == [endpoint |-> "", q |-> None, tmplId |-> None]
NoPicker == [query |-> <<>>, results |-> <<>>, open |-> FALSE, loading |-> FALSE,
             selected |-> <<>>, timer |-> None, fetches |-> {}]
NoApp == [filters |-> <<>>, page |-> 0, sections |-> <<>>, error |-> None,
          loading |-> FALSE, issued |-> 0, loads |-> <<>>]
NoInflight == <<>>
NoAnswer == [kind |-> "", client |-> 0, path |-> <<>>, status |-> 0, body |-> "", queries |-> 0]
NoAuth == [production |-> FALSE, configured |-> FALSE, store |-> <<>>, last |-> NoAnswer]
MoreIdle ==
    /\ orders = NoOrders
    /\ ares = NoAggRes
    /\ treq = NoTypeahead
    /\ picker = NoPicker
    /\ app = NoApp
    /\ inflight = NoInflight
    /\ auth = NoAuth

LinesIdle ==
    /\ dataset = NoRows
    /\ lreq = NoLinesReq
    /\ lsql = NoSql
    /\ lres = NoLinesRes
    /\ walk = NoWalk

Init ==
    /\ query \in Queries
    /\ line = SomeLine
    /\ built = NoBuilt
    /\ verdict = "none"
    /\ pc = "start"
    /\ LinesIdle
    /\ MoreIdle

\* const { where, params } = buildWhere(req.query)
Build ==
    /\ pc = "start"
    /\ built' = buildWhere(query)
    /\ pc' = "built"
    /\ UNCHANGED <<query, line, verdict, linesVars, moreVars>>

\* pool.query(sql, params), seen on one joined line of the tables
RunOn(candidates) ==
    /\ pc = "built"
    /\ \E l \in candidates :
          /\ line' = l
          /\ verdict' = WhereVerdict(built, l)
    /\ pc' = "done"
    /\ UNCHANGED <<query, built, linesVars, moreVars>>

Run == RunOn(Lines)

Next == Build \/ Run

Spec == Init /\ [][Next]_vars

-----------------------------------------------------------------------------
(* The filter compiler on raw query strings: every short skus and           *)
(* productTmplIds string over the characters that matter to the parsing.   *)

\* Longest productTmplIds string and longest skus string tried.
MaxIdsLen == 3
MaxSkusLen == 3

RECURSIVE StringsUpTo(_, _)
StringsUpTo(alphabet, n) ==
    IF n = 0 THEN {<<>>}
    ELSE LET shorter == StringsUpTo(alphabet, n - 1)
         IN  shorter \cup {Append(s, c) : s \in shorter, c \in alphabet}

IdsAlphabet == {"0", "1", "-", ".", ",", "x", " "}
SkusAlphabet == {"S", "T", ",", " "}

RawQueries ==
    {Query(None, dt, None, None, None, se, sk, Some(ids)) :
        dt \in {None, Some(Month_2025_12)},
        se \in {None, Some(<<"s">>)},
        sk \in {None, Some(<<"S", ",", "T">>)},
        ids \in StringsUpTo(IdsAlphabet, MaxIdsLen)}
    \cup
    {Query(None, dt, c1, None, None, se, Some(sk), ids) :
        dt \in {None, Some(Month_2025_12)},
        c1 \in {None, Some(<<>>), Some(Str_A)},
        se \in {None, Some(<<"s">>)},
        sk \in StringsUpTo(SkusAlphabet, MaxSkusLen),
        ids \in {None, Some(<<"1", ",", "1", "0">>)}}

RawLines ==
    {Line("purchase", Date(2025, 2, 28), Some(Path_A), code, None, None, id) :
        code \in {Some(Str_S), Some(Str_U)}, id \in 1..MaxTmplId}

InitCompile ==
    /\ query \in RawQueries
    /\ line = SomeLine
    /\ built = NoBuilt
    /\ verdict = "none"
    /\ pc = "start"
    /\ LinesIdle
    /\ MoreIdle

RunRaw == RunOn(RawLines)

NextCompile == Build \/ RunRaw

SpecCompile == InitCompile /\ [][NextCompile]_vars

-----------------------------------------------------------------------------
(* Claims on the filter compiler alone (SpecCompile) *)

\* The placeholder numbers of the predicate text, in textual order.
RECURSIVE Occurrences(_)
Occurrences(where) ==
    IF where = <<>> THEN <<>> ELSE Head(where).ph \o Occurrences(Tail(where))

TimesReferenced(where, k) ==
    Cardinality({i \in 1..Len(Occurrences(where)) : Occurrences(where)[i] = k})

\* The placeholder the search conjunct holds on both sides of its OR.
IsSearchPlaceholder(where, k) ==
    \E i \in 1..Len(where) : where[i].kind = "search" /\ where[i].ph[1] = k

\* C1 as stated: as many parameters as placeholders in the predicate text, and
\* the placeholders read $1, $2, ..., $n from left to right, each one once.
C1_OncePerPlaceholder ==
    pc # "start" =>
        /\ Len(built.params) = Len(Occurrences(built.where))
        /\ \A i \in 1..Len(Occurrences(built.where)) : Occurrences(built.where)[i] = i

\* C1, amended: the placeholders of the predicate text are exactly $1..$n for
\* the n parameters, they never decrease from left to right, and each one is
\* written once, but for the search parameter, which its conjunct writes twice.
C1_PlaceholdersMatchParams ==
    pc # "start" =>
        LET occ == Occurrences(built.where)
            n   == Len(built.params)
        IN  /\ {occ[i] : i \in 1..Len(occ)} = 1..n
            /\ \A i \in 1..(Len(occ) - 1) : occ[i] <= occ[i + 1]
            /\ \A k \in 1..n :
                  TimesReferenced(built.where, k) =
                      IF IsSearchPlaceholder(built.where, k) THEN 2 ELSE 1

\* A compiled filter with a search, two SKUs and two template ids.
C1_Witness ==
    /\ pc = "built"
    /\ \E i \in 1..Len(built.where) : built.where[i].kind = "search"
    /\ \E i \in 1..Len(built.where) :
          built.where[i].kind = "sku_in" /\ Len(built.where[i].ph) = 2
    /\ \E i \in 1..Len(built.where) :
          built.where[i].kind = "tmpl_in" /\ Len(built.where[i].ph) = 2
    /\ Len(built.params) >= 6

\* A token of productTmplIds that is a positive integer: after trimming, an
\* optional sign and digits only, of a value above zero.
IsPositiveInteger(token) ==
    LET t    == Trim(token)
        body == IF t # <<>> /\ Head(t) \in {"+", "-"} THEN Tail(t) ELSE t
    IN  /\ body # <<>>
        /\ \A i \in 1..Len(body) : IsDigit(body[i])
        /\ parseInt(t).v > 0

\* The values of the tokens of productTmplIds that are positive integers.
ValidIds(productTmplIds) ==
    LET tokens == SelectSeq(Split(productTmplIds, <<",">>), IsPositiveInteger)
    IN  [i \in 1..Len(tokens) |-> IntV(parseInt(Trim(tokens[i])).v)]

\* The parameters the template IN-predicate binds; none without the predicate.
BoundIds(b) ==
    IF \E i \in 1..Len(b.where) : b.where[i].kind = "tmpl_in"
    THEN LET c == b.where[CHOOSE i \in 1..Len(b.where) : b.where[i].kind = "tmpl_in"]
         IN  [j \in 1..Len(c.ph) |-> b.params[c.ph[j]]]
    ELSE <<>>

\* The parameters the SKU IN-predicate binds; none without the predicate.
BoundSkus(b) ==
    IF \E i \in 1..Len(b.where) : b.where[i].kind = "sku_in"
    THEN LET c == b.where[CHOOSE i \in 1..Len(b.where) : b.where[i].kind = "sku_in"]
         IN  [j \in 1..Len(c.ph) |-> b.params[c.ph[j]]]
    ELSE <<>>

\* C6: the template ids bound are exactly the tokens of productTmplIds that are
\* positive integers, in order (no predicate when there is none); the SKUs
\* bound are the non-empty trimmed tokens of skus; and the query is not refused.
C6_OnlyIntegerTokensBound ==
    pc # "start" =>
        /\ IsSome(query.productTmplIds) =>
              Len(BoundIds(built)) = Len(ValidIds(Get(query.productTmplIds)))
              /\ \A i \in 1..Len(BoundIds(built)) :
                    BoundIds(built)[i] = ValidIds(Get(query.productTmplIds))[i]
        /\ IsSome(query.skus) =>
              \A i \in 1..Len(BoundSkus(built)) : BoundSkus(built)[i].s # <<>>
        /\ verdict # "error"

\* The part of C6 on skus, which holds: every SKU bound is a non-empty token.
C6_SkusPart ==
    pc # "start" /\ IsSome(query.skus) =>
        /\ Len(BoundSkus(built)) = Len(SkuList(Get(query.skus)))
        /\ \A i \in 1..Len(BoundSkus(built)) : BoundSkus(built)[i].s # <<>>

-----------------------------------------------------------------------------
(* Claims on the predicate, evaluated on order lines (Spec) *)

\* The year and month a 'YYYY-MM' string names.
MonthOf(s) ==
    LET parts == Split(s, <<"-">>)
    IN  [y |-> ToNumber(parts[1]).v, m |-> ToNumber(parts[2]).v]

OnOrAfterMonth(dt, s) ==
    dt.y > MonthOf(s).y \/ (dt.y = MonthOf(s).y /\ dt.m >= MonthOf(s).m)
NotAfterMonth(dt, s) ==
    dt.y < MonthOf(s).y \/ (dt.y = MonthOf(s).y /\ dt.m <= MonthOf(s).m)

\* The segments of the line's category path; none without a category.
Segments(l) ==
    IF IsSome(l.complete_name) THEN Split(Get(l.complete_name), CategorySep) ELSE <<>>
SegmentIs(l, n, v) == Len(Segments(l)) >= n /\ Segments(l)[n] = v

\* The line's SKU: the variant's code, else the template's; none without both.
LineSkus(l) ==
    IF IsSome(l.pp_code) THEN {Get(l.pp_code)}
    ELSE IF IsSome(l.pt_code) THEN {Get(l.pt_code)}
    ELSE {}

\* s occurs in text, letter case apart.
Contains(text, s) ==
    \E i \in 1..(Len(text) - Len(s) + 1) :
        \A j \in 1..Len(s) : Lower(text[i + j - 1]) = Lower(s[j])

ListedSkus(skus) ==
    {Trim(Split(skus, <<",">>)[i]) : i \in 1..Len(Split(skus, <<",">>))} \ {<<>>}
ListedIds(ids) == {ValidIds(ids)[i].n : i \in 1..Len(ValidIds(ids))}

\* The restrictions no filter field lifts: a confirmed or completed order,
\* dated from 2025-01-01 unless dateFrom is set, and before 2099-01-01 unless
\* dateTo is set.
Confirmed(l) == l.state \in {"purchase", "done"}
Implicit(q, l) ==
    /\ Confirmed(l)
    /\ Truthy(q.dateFrom) \/ ~DateBefore(l.date_order, Date(2025, 1, 1))
    /\ Truthy(q.dateTo) \/ DateBefore(l.date_order, Date(2099, 1, 1))

\* Line l satisfies every filter field of q that is set.
Satisfies(q, l) ==
    /\ Truthy(q.dateFrom) => OnOrAfterMonth(l.date_order, Get(q.dateFrom))
    /\ Truthy(q.dateTo) => NotAfterMonth(l.date_order, Get(q.dateTo))
    /\ Truthy(q.catL1) => SegmentIs(l, 1, Get(q.catL1))
    /\ Truthy(q.catL2) => SegmentIs(l, 2, Get(q.catL2))
    /\ Truthy(q.catL3) => SegmentIs(l, 3, Get(q.catL3))
    /\ Truthy(q.search) =>
          \/ \E sku \in LineSkus(l) : Contains(sku, Get(q.search))
          \/ IsSome(l.name) /\ Contains(Get(l.name), Get(q.search))
    /\ Truthy(q.skus) /\ ListedSkus(Get(q.skus)) # {} =>
          LineSkus(l) \cap ListedSkus(Get(q.skus)) # {}
    /\ Truthy(q.productTmplIds) /\ ListedIds(Get(q.productTmplIds)) # {} =>
          l.tmpl_id \in ListedIds(Get(q.productTmplIds))

C3_ShortPathNeverMatches ==
    pc = "done" =>
        \A n \in 1..3 :
            Len(Segments(line)) < n =>
                /\ CategoryLevel(line, n) = None
                /\ Truthy(query[<<"catL1", "catL2", "catL3">>[n]]) => verdict # "accept"

\* A two-segment path under a catL3 filter: rejected, and by that filter alone.
C3_Witness ==
    /\ pc = "done"
    /\ query.catL3 = Some(Str_C)
    /\ line.complete_name = Some(Path_AC)
    /\ verdict = "reject"
    /\ WhereVerdict(buildWhere([query EXCEPT !.catL3 = None]), line) = "accept"

\* The upper-bound conjunct of the predicate.
UpperBound(b) ==
    b.where[CHOOSE i \in 1..Len(b.where) :
                b.where[i].kind \in {"date_lt", "date_lt_sentinel"}]

\* The first day of the month after the one a 'YYYY-MM' string names.
FirstOfNextMonth(s) ==
    IF MonthOf(s).m = 12 THEN Date(MonthOf(s).y + 1, 1, 1)
    ELSE Date(MonthOf(s).y, MonthOf(s).m + 1, 1)

\* What C4 says of a dateTo that is set: the bound is the first day of the
\* next month, and the conjunct holds exactly of the lines dated up to the end
\* of the dateTo month.
UpperBoundOfDateTo ==
    Truthy(query.dateTo) =>
        /\ UpperBound(built).kind = "date_lt"
        /\ DateCast(AsText(built.params[UpperBound(built).ph[1]]))
              = Some(FirstOfNextMonth(Get(query.dateTo)))
        /\ CondTrue(UpperBound(built), built.params, line)
              <=> NotAfterMonth(line.date_order, Get(query.dateTo))

NoFieldSet(q) == \A f \in FilterFields : ~Truthy(q[f])

\* C5 as stated: with no field set, the lines accepted are exactly those of
\* confirmed or completed orders dated on or after 2025-01-01.
C5_DefaultsMatchAllConfirmed ==
    pc = "done" /\ NoFieldSet(query) =>
        (verdict = "accept"
            <=> Confirmed(line) /\ ~DateBefore(line.date_order, Date(2025, 1, 1)))

\* C5, amended: ... dated on or after 2025-01-01 and before 2099-01-01.
C5_DefaultsMatchConfirmedBeforeSentinel ==
    pc = "done" /\ NoFieldSet(query) =>
        (verdict = "accept"
            <=> /\ Confirmed(line)
                /\ ~DateBefore(line.date_order, Date(2025, 1, 1))
                /\ DateBefore(line.date_order, Date(2099, 1, 1)))

\* Every field sent empty: a completed order of 2025-01-01 without category,
\* SKU or name is accepted.
C5_Witness ==
    /\ pc = "done"
    /\ query = [f \in FilterFields |-> Some(<<>>)]
    /\ line.state = "done"
    /\ line.date_order = Date(2025, 1, 1)
    /\ line.complete_name = None
    /\ Sku(line) = None
    /\ verdict = "accept"

-----------------------------------------------------------------------------
(* GET /api/po/lines: the paginated, sortable rollup *)

HexDigits == <<"0", "1", "2", "3", "4", "5", "6", "7", "8", "9",
               "a", "b", "c", "d", "e", "f">>
IsHexDigit(c) == \E i \in 1..16 : HexDigits[i] = Lower(c)
HexVal(c) == (CHOOSE i \in 1..16 : HexDigits[i] = Lower(c)) - 1
RECURSIVE HexPrefix(_)
HexPrefix(s) ==
    IF s # <<>> /\ IsHexDigit(Head(s)) THEN <<Head(s)>> \o HexPrefix(Tail(s)) ELSE <<>>
RECURSIVE HexValue(_, _)
HexValue(s, acc) ==
    IF s = <<>> THEN acc ELSE HexValue(Tail(s), 16 * acc + HexVal(Head(s)))

\* parseInt(s) without a radix: as parseInt(s, 10), but a body that starts
\* with 0x or 0X is read as hexadecimal.
parseIntNoRadix(s) ==
    LET t    == TrimStart(s)
        neg  == t # <<>> /\ Head(t) = "-"
        sgn  == t # <<>> /\ (Head(t) = "-" \/ Head(t) = "+")
        body == IF sgn THEN Tail(t) ELSE t
        hex  == Len(body) >= 2 /\ body[1] = "0" /\ Lower(body[2]) = "x"
        ds   == IF hex THEN HexPrefix(SubSeq(body, 3, Len(body))) ELSE DigitPrefix(body)
        val  == IF hex THEN HexValue(ds, 0) ELSE DigitsValue(ds, 0)
    IN  IF ds = <<>> THEN NaN ELSE Num(IF neg THEN 0 - val ELSE val)

\* Math.max and Math.min: NaN when an argument is NaN.
MathMax(a, b) == IF a.nan \/ b.nan THEN NaN ELSE IF a.v >= b.v THEN a ELSE b
MathMin(a, b) == IF a.nan \/ b.nan THEN NaN ELSE IF a.v <= b.v THEN a ELSE b

\* req.query.x || dflt
OrDefault(field, dflt) == IF Truthy(field) THEN Get(field) ELSE dflt

MinPageSize == 10
MaxPageSize == 200
DefaultPage == <<"1">>
DefaultPageSize == <<"5", "0">>

\* Math.max(1, parseInt(req.query.page || '1'))
PageOf(r) == MathMax(Num(1), parseIntNoRadix(OrDefault(r.page, DefaultPage)))

\* Math.min(200, Math.max(10, parseInt(req.query.pageSize || '50')))
PageSizeOf(r) ==
    MathMin(Num(MaxPageSize),
            MathMax(Num(MinPageSize),
                    parseIntNoRadix(OrDefault(r.pageSize, DefaultPageSize))))

\* (page - 1) * pageSize
OffsetOf(page, pageSize) ==
    IF page.nan \/ pageSize.nan THEN NaN ELSE Num((page.v - 1) * pageSize.v)

\* The object literal SORTABLE: its own properties.
SORTABLE ==
    [month           |-> "month",
     sku             |-> "sku",
     product_name_en |-> "product_name_en",
     category_l1     |-> "category_l1",
     category_l2     |-> "category_l2",
     category_l3     |-> "category_l3",
     ordered_qty     |-> "ordered_qty_po_uom",
     received_qty    |-> "received_qty_po_uom",
     invoiced_qty    |-> "invoiced_qty_po_uom",
     ordered_value   |-> "ordered_value_thb",
     avg_price       |-> "avg_price_unit_thb"]

\* What SORTABLE inherits from Object.prototype, as a template literal prints
\* each value: the functions by their source text, __proto__ as an object.
ObjectPrototype ==
    [constructor    |-> "function Object() { [native code] }",
     toString       |-> "function toString() { [native code] }",
     valueOf        |-> "function valueOf() { [native code] }",
     hasOwnProperty |-> "function hasOwnProperty() { [native code] }",
     __proto__      |-> "[object Object]"]

\* obj[key] of a plain object: an own property, else an inherited one, else
\* undefined.  An undefined key reads the property named 'undefined'.
PropertyOf(own, key) ==
    LET name == IF IsSome(key) THEN Get(key) ELSE "undefined"
    IN  IF name \in DOMAIN own THEN Some(own[name])
        ELSE IF name \in DOMAIN ObjectPrototype THEN Some(ObjectPrototype[name])
        ELSE None

\* SORTABLE[req.query.sortBy] || 'month'
SortColOf(r) ==
    LET found == PropertyOf(SORTABLE, r.sortBy)
    IN  IF IsSome(found) /\ Get(found) # "" THEN Get(found) ELSE "month"

\* req.query.sortDir === 'asc' ? 'ASC' : 'DESC'
SortDirOf(r) == IF r.sortDir = Some("asc") THEN "ASC" ELSE "DESC"

\* The tie-break on sku running the same way as the primary sort.
TieDirSame(sortDir) == sortDir

\* sortDir === 'DESC' ? 'ASC' : 'DESC'
TieDirOf(sortDir) == IF sortDir = "DESC" THEN "ASC" ELSE "DESC"

\* The output columns of the data query's SELECT that the model keeps.
OutputColumns ==
    {"month", "variant_id", "sku", "product_name_en", "category_l1", "category_l2",
     "category_l3", "ordered_qty_po_uom", "po_uom", "received_qty_po_uom",
     "invoiced_qty_po_uom", "ordered_value_thb", "avg_price_unit_thb"}

\* x sorts before y in ascending order: NULL is larger than every value.
KeyLess(x, y) ==
    IF ~IsSome(x) THEN FALSE ELSE IF ~IsSome(y) THEN TRUE ELSE Get(x) < Get(y)
InDirection(x, y, dir) == IF dir = "ASC" THEN KeyLess(x, y) ELSE KeyLess(y, x)

\* ORDER BY ${sortCol} ${sortDir}, sku ${tieDir}: a must come before b.
Before(a, b, q) ==
    \/ InDirection(a[q.sortCol], b[q.sortCol], q.sortDir)
    \/ a[q.sortCol] = b[q.sortCol] /\ InDirection(a.sku, b.sku, q.tieDir)

\* Every order the sort may return the rows in: rows that ORDER BY does not
\* tell apart come in either order, and not the same one in every query.
RECURSIVE OrdersOf(_, _)
OrdersOf(rows, q) ==
    IF rows = {} THEN {<<>>}
    ELSE UNION {{<<r>> \o rest : rest \in OrdersOf(rows \ {r}, q)} :
                    r \in {m \in rows : \A o \in rows : ~Before(o, m, q)}}

\* LIMIT ${pageSize} OFFSET ${offset}
LimitOffset(ordered, limit, offset) ==
    SubSeq(ordered, offset + 1,
           IF offset + limit <= Len(ordered) THEN offset + limit ELSE Len(ordered))

\* PostgreSQL refuses the data query: ORDER BY names no output column, or
\* LIMIT / OFFSET is the text NaN.
DataQueryFails(q) ==
    \/ q.sortCol \notin OutputColumns
    \/ q.pageSize.nan
    \/ q.offset.nan

\* The count query: the groups of (pp.id, uom_pol.id, month).  A rollup row
\* of the data query, grouped by the unit's name, knows the ids of the units
\* of its lines.
CountKey(r, uom_id) == <<r.variant_id, uom_id, r.month>>
CountQuery(rows) ==
    Cardinality(UNION {{CountKey(r, u) : u \in r.uom_ids} : r \in rows})

\* What the handler puts into dataSql for request r.
DataSqlOf(r) ==
    [sortCol  |-> SortColOf(r),
     sortDir  |-> SortDirOf(r),
     tieDir   |-> TieDirOf(SortDirOf(r)),
     page     |-> PageOf(r),
     pageSize |-> PageSizeOf(r),
     offset   |-> OffsetOf(PageOf(r), PageSizeOf(r))]

-----------------------------------------------------------------------------
(* Inputs of /api/po/lines *)

\* The rollup rows in the tables: the first n of a catalogue, n up to MaxRows.
MaxRows == 12
\* Longest page and pageSize strings tried.
MaxPageLen == 2
MaxPageSizeLen == 3

\* Rows 1 and 2 are one variant bought in two units in the same month; variants
\* 7 and 8 share the SKU of their template; variant 5 has no SKU, no category;
\* the lines of row 3 are in two units of uom_uom that have the same name.
VariantOf(i) == IF i = 2 THEN 1 ELSE i
RollupRow(i) ==
    LET v == VariantOf(i)
    IN  [month               |-> Some(IF v = 1 THEN 1 ELSE 2 + (i % 2)),
         variant_id          |-> Some(v),
         sku                 |-> IF v = 5 THEN None ELSE IF v = 8 THEN Some(7) ELSE Some(v),
         product_name_en     |-> Some(v % 4),
         category_l1         |-> IF v % 5 = 0 THEN None ELSE Some(v % 2),
         category_l2         |-> IF v % 5 = 0 \/ v % 3 = 0 THEN None ELSE Some(v % 3),
         category_l3         |-> IF v % 5 = 0 \/ v % 3 = 0 \/ v % 4 = 0
                                 THEN None ELSE Some(v % 4),
         ordered_qty_po_uom  |-> Some((i * 7) % 5),
         po_uom              |-> Some(IF i = 2 THEN 2 ELSE 1),
         uom_ids             |-> IF i = 2 THEN {2} ELSE IF i = 3 THEN {1, 3} ELSE {1},
         received_qty_po_uom |-> Some((i * 3) % 4),
         invoiced_qty_po_uom |-> Some(i % 3),
         ordered_value_thb   |-> Some((i * 5) % 7),
         avg_price_unit_thb  |-> Some((i * 2) % 6)]

Catalogue(n) == {RollupRow(i) : i \in 1..n}

PageStrings == StringsUpTo({"0", "1", "2", "-", "x"}, MaxPageLen)
PageSizeStrings == StringsUpTo({"0", "1", "2", "9", "x"}, MaxPageSizeLen)

SortByValues ==
    {None, Some("")} \cup {Some(k) : k \in DOMAIN SORTABLE}
    \cup {Some("price"), Some("ordered_qty_po_uom"), Some("constructor"),
          Some("toString"), Some("__proto__")}
SortDirValues == {None, Some("asc"), Some("desc"), Some("ASC")}

LinesReq(page, pageSize, sortBy, sortDir) ==
    [page |-> page, pageSize |-> pageSize, sortBy |-> sortBy, sortDir |-> sortDir]

LinesRequests ==
    {LinesReq(p, None, None, None) : p \in {None} \cup {Some(s) : s \in PageStrings}}
    \cup {LinesReq(None, Some(s), None, None) : s \in PageSizeStrings}
    \cup {LinesReq(p, Some(<<"1", "0">>), sb, sd) :
            p \in {None, Some(<<"2">>)}, sb \in SortByValues, sd \in SortDirValues}

-----------------------------------------------------------------------------
(* The requests to /api/po/lines *)

InitLines ==
    /\ query = NoQuery
    /\ line = SomeLine
    /\ built = NoBuilt
    /\ verdict = "none"
    /\ pc = "idle"
    /\ dataset \in {Catalogue(n) : n \in 0..MaxRows}
    /\ lreq = NoLinesReq
    /\ lsql = NoSql
    /\ lres = NoLinesRes
    /\ walk = NoWalk
    /\ MoreIdle

\* A request arrives; one for page 1 starts a read of the table page by page.
\* The server keeps nothing between requests, so a behaviour follows one read.
LinesRequest ==
    /\ pc = "idle"
    /\ lres = NoLinesRes
    /\ \E r \in LinesRequests :
          /\ lreq' = r
          /\ walk' = [on |-> PageOf(r) = Num(1), pages |-> <<>>]
    /\ pc' = "lines"
    /\ UNCHANGED <<query, line, built, verdict, dataset, lsql, lres, moreVars>>

\* The client asks for the next page of what it reads, same sort and pageSize.
LinesNextPage ==
    /\ pc = "idle"
    /\ walk.on
    /\ lres.status = 200
    /\ lres.page.v * lres.pageSize.v < lres.total
    /\ lreq' = [lreq EXCEPT !.page = Some(NumToStr(PlusOne(lres.page)))]
    /\ pc' = "lines"
    /\ UNCHANGED <<query, line, built, verdict, dataset, lsql, lres, walk, moreVars>>

\* app.get('/api/po/lines'): the handler, from the parameters to the response.
LinesHandle ==
    /\ pc = "lines"
    /\ lsql' = DataSqlOf(lreq)
    /\ IF DataQueryFails(DataSqlOf(lreq))
       THEN /\ lres' = [status |-> 500, total |-> 0, page |-> NaN, pageSize |-> NaN,
                        data |-> <<>>]
            /\ walk' = [on |-> FALSE, pages |-> <<>>]
       ELSE \E ordered \in OrdersOf(dataset, DataSqlOf(lreq)) :
               LET q    == DataSqlOf(lreq)
                   data == LimitOffset(ordered, q.pageSize.v, q.offset.v)
               IN  /\ lres' = [status |-> 200, total |-> CountQuery(dataset),
                               page |-> q.page, pageSize |-> q.pageSize, data |-> data]
                   /\ walk' = IF walk.on
                              THEN [walk EXCEPT !.pages = Append(@, data)]
                              ELSE walk
    /\ pc' = "idle"
    /\ UNCHANGED <<query, line, built, verdict, dataset, lreq, moreVars>>

NextLines == LinesRequest \/ LinesNextPage \/ LinesHandle

SpecLines == InitLines /\ [][NextLines]_vars

-----------------------------------------------------------------------------
(* Claims about /api/po/lines, under SpecLines *)

RECURSIVE Flatten(_)
Flatten(pages) == IF pages = <<>> THEN <<>> ELSE Head(pages) \o Flatten(Tail(pages))

\* The read has received its last page.
ReadComplete ==
    /\ pc = "idle"
    /\ walk.on
    /\ lres.status = 200
    /\ lres.page.v * lres.pageSize.v >= lres.total

\* C7: for a fixed dataset, sort and pageSize, the data of pages 1, 2, ... put
\* one after the other holds every rollup row exactly once: none is repeated
\* on two pages, none is missing.
C7_PagesHoldEachRowOnce ==
    ReadComplete =>
        LET all == Flatten(walk.pages)
        IN  /\ Len(all) = Cardinality(dataset)
            /\ \A r \in dataset : Cardinality({i \in 1..Len(all) : all[i] = r}) = 1

\* The allow-list as the interface documents it: sortBy key to column.
AllowListed ==
    {<<"month", "month">>, <<"sku", "sku">>, <<"product_name_en", "product_name_en">>,
     <<"category_l1", "category_l1">>, <<"category_l2", "category_l2">>,
     <<"category_l3", "category_l3">>, <<"ordered_qty", "ordered_qty_po_uom">>,
     <<"received_qty", "received_qty_po_uom">>, <<"invoiced_qty", "invoiced_qty_po_uom">>,
     <<"ordered_value", "ordered_value_thb">>, <<"avg_price", "avg_price_unit_thb">>}
AllowedKeys == {e[1] : e \in AllowListed}
AllowedColumns == {e[2] : e \in AllowListed}
ColumnOfKey(k) == (CHOOSE e \in AllowListed : e[1] = k)[2]

\* x <= y, a missing value counting as the largest.
NullsLastLeq(x, y) == ~IsSome(y) \/ (IsSome(x) /\ Get(x) <= Get(y))

SortedResponse == lres.status = 200 /\ IsSome(lreq.sortBy) /\ Get(lreq.sortBy) \in AllowedKeys

\* C8: for every allow-listed sort column and each direction, the rows of a
\* response are non-decreasing (asc) or non-increasing (desc) in that column,
\* and rows equal in that column are ordered by SKU in the opposite direction.
C8_SortedWithOppositeTieBreak ==
    SortedResponse =>
        LET col == ColumnOfKey(Get(lreq.sortBy))
            asc == lreq.sortDir = Some("asc")
        IN  \A i \in 1..(Len(lres.data) - 1) :
               LET a == lres.data[i]
                   b == lres.data[i + 1]
               IN  IF asc
                   THEN /\ NullsLastLeq(a[col], b[col])
                        /\ a[col] = b[col] => NullsLastLeq(b.sku, a.sku)
                   ELSE /\ NullsLastLeq(b[col], a[col])
                        /\ a[col] = b[col] => NullsLastLeq(a.sku, b.sku)

\* A response sorted on an allow-listed column other than sku, in which two
\* neighbouring rows are equal in that column and differ in SKU, and which
\* holds a row without a value in that column.
C8_Witness ==
    /\ SortedResponse
    /\ Get(lreq.sortBy) # "sku"
    /\ LET col == ColumnOfKey(Get(lreq.sortBy))
       IN  /\ \E i \in 1..(Len(lres.data) - 1) :
                 /\ lres.data[i][col] = lres.data[i + 1][col]
                 /\ lres.data[i].sku # lres.data[i + 1].sku
           /\ \E i \in 1..Len(lres.data) : ~IsSome(lres.data[i][col])

Handled == pc = "idle" /\ lres.status # 0

\* C9: whatever page and pageSize are (absent, non-numeric, zero, negative, too
\* large), the request is not rejected because of them: it runs with an integer
\* page >= 1 and an integer pageSize in 10..200, 1 and 50 when absent, and the
\* response reports those values.
C9_PagingNeverRejected ==
    Handled =>
        /\ ~lsql.page.nan /\ lsql.page.v >= 1
        /\ ~lsql.pageSize.nan /\ lsql.pageSize.v \in 10..200
        /\ ~IsSome(lreq.page) => lsql.page = Num(1)
        /\ ~IsSome(lreq.pageSize) => lsql.pageSize = Num(50)
        /\ lsql.sortCol \in AllowedColumns =>
              /\ lres.status = 200
              /\ lres.page = lsql.page
              /\ lres.pageSize = lsql.pageSize

\* C10: whatever sortBy is, the column in ORDER BY is an allow-listed column
\* name, month when sortBy is absent or not in the allow-list; and the
\* direction is ASC only when sortDir is exactly 'asc', DESC otherwise.
C10_OrderByFromAllowList ==
    Handled =>
        /\ lsql.sortCol \in AllowedColumns
        /\ lsql.sortCol = IF IsSome(lreq.sortBy) /\ Get(lreq.sortBy) \in AllowedKeys
                          THEN ColumnOfKey(Get(lreq.sortBy))
                          ELSE "month"
        /\ lsql.sortDir = IF lreq.sortDir = Some("asc") THEN "ASC" ELSE "DESC"

\* C22: the total of a lines response is the number of rollup rows the data
\* query yields over all pages.
C22_TotalIsNumberOfRollupRows ==
    (pc = "idle" /\ lres.status = 200) => lres.total = Cardinality(dataset)

-----------------------------------------------------------------------------
(* The aggregations: /api/po/kpis and /api/po/by-uom *)

\* A row of BASE_JOINS with the columns the aggregations read: l holds the
\* columns of the WHERE clause.  uom_name is None when the LEFT JOIN finds no
\* unit of measure, Some(None) when the name of the unit has no en_US entry,
\* Some(Some(text)) otherwise.
OrderLine(id, l, product_qty, price_unit, qty_received, qty_invoiced, uom_name) ==
    [id |-> id, l |-> l, product_qty |-> product_qty, price_unit |-> price_unit,
     qty_received |-> qty_received, qty_invoiced |-> qty_invoiced,
     uom_name |-> uom_name]

\* The rows the WHERE clause keeps.
Matching(b, rows) == {r \in rows : WhereVerdict(b, r.l) = "accept"}

\* a * b in SQL: NULL when an operand is NULL.
Times(a, b) == IF IsSome(a) /\ IsSome(b) THEN Some(Get(a) * Get(b)) ELSE None

RECURSIVE SumOf(_)
SumOf(pairs) ==
    IF pairs = {} THEN 0
    ELSE LET p == CHOOSE e \in pairs : TRUE
         IN  p[2] + SumOf(pairs \ {p})

\* SUM(expr) over rows, given as the pairs <<row id, value of expr>>: the NULL
\* values are skipped, and the sum of no value is NULL.
SqlSum(vals) ==
    LET present == {<<v[1], Get(v[2])>> : v \in {w \in vals : IsSome(w[2])}}
    IN  IF present = {} THEN None ELSE Some(SumOf(present))

OrderedValue(rows) == SqlSum({<<r.id, Times(r.product_qty, r.price_unit)>> : r \in rows})
OrderedQty(rows) == SqlSum({<<r.id, r.product_qty>> : r \in rows})
ReceivedValue(rows) == SqlSum({<<r.id, Times(r.qty_received, r.price_unit)>> : r \in rows})
InvoicedValue(rows) == SqlSum({<<r.id, Times(r.qty_invoiced, r.price_unit)>> : r \in rows})
ReceivedQty(rows) == SqlSum({<<r.id, r.qty_received>> : r \in rows})

\* COALESCE(x, 0)
CoalesceZero(x) == IF IsSome(x) THEN x ELSE Some(0)

\* The denominator left as it is: no NULLIF around it.
NullIfZeroDropped(x) == x

\* NULLIF(x, 0)
NullIfZero(x) == IF x = Some(0) THEN None ELSE x

Abs(n) == IF n < 0 THEN 0 - n ELSE n

\* n / d rounded to the nearest integer, a half away from zero (ROUND on numeric).
RoundHalfAway(n, d) ==
    LET q == (2 * Abs(n) + Abs(d)) \div (2 * Abs(d))
    IN  IF (n < 0) = (d < 0) THEN q ELSE 0 - q

\* A division by zero is an error of the statement.
DivFails(den) == den = Some(0)

\* ROUND(100.0 * num / den, 1), in tenths of a percent: NULL when num or den is.
PctRound1(num, den) ==
    IF IsSome(num) /\ IsSome(den) /\ ~DivFails(den)
    THEN Some(RoundHalfAway(1000 * Get(num), Get(den)))
    ELSE None

\* The day of the order instead of its month.
MonthKeyOfDay(r) == <<r.l.date_order.y, r.l.date_order.m, r.l.date_order.d>>

\* TO_CHAR(date_trunc('month', po.date_order), 'YYYY-MM')
MonthKey(r) == <<r.l.date_order.y, r.l.date_order.m>>

\* The one row the kpis statement returns over the rows kept.
KpisRow(rows) ==
    [total_lines          |-> Cardinality(rows),
     total_ordered_value  |-> Get(CoalesceZero(OrderedValue(rows))),
     total_ordered_qty    |-> Get(CoalesceZero(OrderedQty(rows))),
     total_received_value |-> Get(CoalesceZero(ReceivedValue(rows))),
     total_invoiced_value |-> Get(CoalesceZero(InvoicedValue(rows))),
     pct_received         |-> PctRound1(CoalesceZero(ReceivedValue(rows)),
                                        NullIfZero(OrderedValue(rows))),
     pct_invoiced         |-> PctRound1(CoalesceZero(InvoicedValue(rows)),
                                        NullIfZero(OrderedValue(rows))),
     distinct_months      |-> Cardinality({MonthKey(r) : r \in rows})]

ErrorBody == [error |-> "message"]
Failed(endpoint, queries) ==
    [endpoint |-> endpoint, status |-> 500, body |-> ErrorBody, queries |-> queries]
Answered(endpoint, body, queries) ==
    [endpoint |-> endpoint, status |-> 200, body |-> body, queries |-> queries]

\* pool.query(sql, params) of /api/po/kpis and what the handler answers.
Kpis(b, rows) ==
    IF StatementFails(b) \/ DivFails(NullIfZero(OrderedValue(Matching(b, rows))))
    THEN Failed("kpis", 1)
    ELSE Answered("kpis", KpisRow(Matching(b, rows)), 1)

\* uom_pol.name->>'en_US'
UomText(r) == IF IsSome(r.uom_name) THEN Get(r.uom_name) ELSE None

\* AND uom_pol.name IS NOT NULL
UomNamed(rows) == {r \in rows : IsSome(r.uom_name)}

\* One row of the by-uom statement: the group of the rows whose unit text is u.
ByUomRow(u, rows) ==
    LET g == {r \in rows : UomText(r) = u}
    IN  [uom                |-> IF IsSome(u) THEN Get(u) ELSE "Unknown",
         line_count         |-> Cardinality(g),
         total_ordered_qty  |-> OrderedQty(g),
         total_received_qty |-> ReceivedQty(g),
         total_value_thb    |-> OrderedValue(g),
         pct_received       |-> PctRound1(ReceivedQty(g), NullIfZero(OrderedQty(g)))]

ByUomRows(rows) == {ByUomRow(u, UomNamed(rows)) : u \in {UomText(r) : r \in UomNamed(rows)}}

\* ORDER BY total_value_thb DESC: every order the statement may return.
RECURSIVE ByValueDesc(_)
ByValueDesc(rs) ==
    IF rs = {} THEN {<<>>}
    ELSE UNION {{<<r>> \o rest : rest \in ByValueDesc(rs \ {r})} :
                    r \in {m \in rs : \A o \in rs :
                              ~KeyLess(m.total_value_thb, o.total_value_thb)}}

\* Most order lines in the database.
MaxOrderLines == 3

Month_2025_01 == <<"2", "0", "2", "5", "-", "0", "1">>
Month_2025_03 == <<"2", "0", "2", "5", "-", "0", "3">>

OrderOn(state, date_order) ==
    Line(state, date_order, Some(Path_AB), Some(Str_S), None, None, 1)

\* The order lines the tables are made of: confirmed and draft orders, months
\* inside and outside 2025-01..2025-03, a zero quantity, a zero price, a
\* returned quantity, a reception not recorded, and the three kinds of unit.
OrderPool ==
    {OrderLine(1, OrderOn("purchase", Date(2025, 1, 15)), Some(10), Some(5),
               Some(10), Some(5), Some(Some("kg"))),
     OrderLine(2, OrderOn("done", Date(2025, 2, 10)), Some(20), Some(5),
               Some(5), Some(0), Some(Some("kg"))),
     OrderLine(3, OrderOn("purchase", Date(2025, 2, 28)), Some(0), Some(5),
               None, Some(0), Some(Some("Unit"))),
     OrderLine(4, OrderOn("purchase", Date(2025, 4, 1)), Some(3), Some(7),
               Some(1), Some(1), Some(None)),
     OrderLine(5, OrderOn("draft", Date(2025, 3, 31)), Some(10), Some(5),
               Some(0), Some(0), Some(Some("kg"))),
     OrderLine(6, OrderOn("purchase", Date(2024, 12, 31)), Some(4), Some(0),
               Some(4), Some(2), Some(Some("Unit"))),
     OrderLine(7, OrderOn("purchase", Date(2025, 1, 1)), Some(3), Some(1),
               Some(1), Some(2), None),
     OrderLine(8, OrderOn("purchase", Date(2025, 1, 31)), Some(0 - 10), Some(5),
               Some(0), Some(0), Some(Some("kg")))}

OrderTables == {t \in SUBSET OrderPool : Cardinality(t) <= MaxOrderLines}

AggQueries ==
    {NoQuery,
     [NoQuery EXCEPT !.dateFrom = Some(Month_2025_01), !.dateTo = Some(Month_2025_03)],
     [NoQuery EXCEPT !.dateFrom = Some(Month_2024_12)],
     [NoQuery EXCEPT !.dateTo = Some(Month_2025_01)]}

InitAggregates ==
    /\ query \in AggQueries
    /\ line = SomeLine
    /\ built = NoBuilt
    /\ verdict = "none"
    /\ pc = "agg"
    /\ LinesIdle
    /\ orders \in OrderTables
    /\ ares = NoAggRes
    /\ treq = NoTypeahead
    /\ picker = NoPicker
    /\ app = NoApp
    /\ inflight = NoInflight
    /\ auth = NoAuth

\* app.get('/api/po/kpis')
KpisHandle ==
    /\ pc = "agg"
    /\ built' = buildWhere(query)
    /\ ares' = Kpis(buildWhere(query), orders)
    /\ pc' = "answered"
    /\ UNCHANGED <<query, line, verdict, linesVars, orders, treq, picker, app, inflight, auth>>

\* app.get('/api/po/by-uom')
ByUomHandle ==
    /\ pc = "agg"
    /\ built' = buildWhere(query)
    /\ IF StatementFails(buildWhere(query))
       THEN ares' = Failed("by-uom", 1)
       ELSE \E body \in ByValueDesc(ByUomRows(Matching(buildWhere(query), orders))) :
               ares' = Answered("by-uom", body, 1)
    /\ pc' = "answered"
    /\ UNCHANGED <<query, line, verdict, linesVars, orders, treq, picker, app, inflight, auth>>

NextAggregates == KpisHandle \/ ByUomHandle

SpecAggregates == InitAggregates /\ [][NextAggregates]_vars

-----------------------------------------------------------------------------
(* Claims about the aggregations, under SpecAggregates *)

\* The lines of the table that the filter of the request selects: confirmed,
\* inside the months asked for (from 2025-01 when no dateFrom is given).
Selected ==
    {r \in orders : Confirmed(r.l) /\ Implicit(query, r.l) /\ Satisfies(query, r.l)}

ValueOr0(x) == IF IsSome(x) THEN Get(x) ELSE 0
RECURSIVE Total(_, _)
Total(rows, f) ==
    IF rows = {} THEN 0
    ELSE LET r == CHOOSE e \in rows : TRUE
         IN  ValueOr0(r[f]) * ValueOr0(r.price_unit) + Total(rows \ {r}, f)

KpisAnswered == pc = "answered" /\ ares.endpoint = "kpis"

\* t tenths of a percent is 100 * num / den rounded to one decimal.
IsPctOf(t, num, den) == 2 * Abs(t * den - 1000 * num) <= Abs(den)

\* C11: pct_received and pct_invoiced of /api/po/kpis are null when the summed
\* ordered value is zero, also when no line matches; otherwise they are
\* 100 * received (invoiced) value / ordered value rounded to one decimal; and
\* the request never fails because of a zero denominator.
C11_PctNullOnZeroDenominator ==
    KpisAnswered =>
        /\ ares.status = 200
        /\ LET ord == Total(Selected, "product_qty")
               rec == Total(Selected, "qty_received")
               inv == Total(Selected, "qty_invoiced")
           IN  IF ord = 0
               THEN ares.body.pct_received = None /\ ares.body.pct_invoiced = None
               ELSE /\ IsSome(ares.body.pct_received)
                    /\ IsPctOf(Get(ares.body.pct_received), rec, ord)
                    /\ IsSome(ares.body.pct_invoiced)
                    /\ IsPctOf(Get(ares.body.pct_invoiced), inv, ord)

\* The denominator is zero over lines that do match: an order and its return.
C11_Witness ==
    /\ KpisAnswered
    /\ ares.status = 200
    /\ Selected # {}
    /\ Total(Selected, "product_qty") = 0
    /\ ares.body.total_lines = Cardinality(Selected)
    /\ ares.body.pct_received = None

\* C12: /api/po/kpis returns total_ordered_value equal to the sum of quantity
\* times unit price over exactly the matching lines, and distinct_months equal
\* to the number of calendar months holding a matching line.
C12_TotalsOverMatchingLines ==
    KpisAnswered =>
        /\ ares.status = 200
        /\ ares.body.total_ordered_value = Total(Selected, "product_qty")
        /\ ares.body.distinct_months =
              Cardinality({<<r.l.date_order.y, r.l.date_order.m>> : r \in Selected})

\* The example of C12: dateFrom 2025-01, dateTo 2025-03, 10 @ 5 in January,
\* 20 @ 5 in February, nothing confirmed in March: 150 over 2 months.
C12_Witness ==
    /\ KpisAnswered
    /\ query.dateFrom = Some(Month_2025_01)
    /\ query.dateTo = Some(Month_2025_03)
    /\ {r.id : r \in orders} = {1, 2, 5}
    /\ {r.id : r \in Selected} = {1, 2}
    /\ ares.body.total_ordered_value = 150
    /\ ares.body.distinct_months = 2

ByUomAnswered == pc = "answered" /\ ares.endpoint = "by-uom"

\* The unit of measure of the line is null or unknown.
UnitLess(r) == ~IsSome(r.uom_name) \/ ~IsSome(Get(r.uom_name))

\* C15: the by-uom query excludes no line because it has no unit or a zero
\* quantity: every matching line is counted in a row, and the matching lines
\* whose unit is null or unknown are the row labelled "Unknown".
C15_UnitLessLinesInUnknownRow ==
    ByUomAnswered =>
        /\ ares.status = 200
        /\ SumOf({<<i, ares.body[i].line_count>> : i \in 1..Len(ares.body)})
              = Cardinality(Selected)
        /\ {r \in Selected : UnitLess(r)} # {} =>
              \E i \in 1..Len(ares.body) :
                 /\ ares.body[i].uom = "Unknown"
                 /\ ares.body[i].line_count = Cardinality({r \in Selected : UnitLess(r)})

-----------------------------------------------------------------------------
(* /api/po/price-trend: daily weighted price and its moving averages *)

\* The number of the calendar day, counted from a fixed origin.
RECURSIVE DaysBeforeMonth(_, _)
DaysBeforeMonth(y, m) == IF m = 1 THEN 0 ELSE DaysIn(y, m - 1) + DaysBeforeMonth(y, m - 1)
DayNumber(dt) ==
    365 * dt.y + (dt.y - 1) \div 4 - (dt.y - 1) \div 100 + (dt.y - 1) \div 400
    + DaysBeforeMonth(dt.y, dt.m) + dt.d

\* Exact quotients: n / d.
Rat(n, d) == [n |-> n, d |-> d]
RatAdd(a, b) == Rat(a.n * b.d + b.n * a.d, a.d * b.d)
RECURSIVE RatSum(_)
RatSum(pairs) ==
    IF pairs = {} THEN Rat(0, 1)
    ELSE LET p == CHOOSE e \in pairs : TRUE
         IN  RatAdd(p[2], RatSum(pairs \ {p}))

\* AVG(expr) over a non-empty set of <<key, value>>.
RatAvg(pairs) == Rat(RatSum(pairs).n, RatSum(pairs).d * Cardinality(pairs))

\* ROUND(x::numeric, 4), in ten-thousandths.
Round4(x) == RoundHalfAway(10000 * x.n, x.d)

\* The CTE daily: WHERE ... AND pol.product_qty > 0 GROUP BY po.date_order::date
\* HAVING SUM(pol.product_qty) > 0.
Daily(rows) ==
    LET kept == {r \in rows : Get(r.product_qty) > 0}
        day(dt) == {r \in kept : r.l.date_order = dt}
        all == {[order_date  |-> dt,
                 total_value |-> Get(OrderedValue(day(dt))),
                 total_qty   |-> Get(OrderedQty(day(dt)))] :
                    dt \in {r.l.date_order : r \in kept}}
    IN  {g \in all : g.total_qty > 0}

\* The frame without its lower bound: every day up to the current row.
FrameUnbounded(daily, cur, days) ==
    {e \in daily : DayNumber(e.order_date) <= DayNumber(cur.order_date)}

\* ORDER BY order_date RANGE BETWEEN '<days> days' PRECEDING AND CURRENT ROW
Frame(daily, cur, days) ==
    {e \in daily : /\ DayNumber(e.order_date) >= DayNumber(cur.order_date) - days
                   /\ DayNumber(e.order_date) <= DayNumber(cur.order_date)}

\* AVG(total_value / total_qty) OVER (frame)
FrameAvg(frame) ==
    RatAvg({<<e.order_date, Rat(e.total_value, e.total_qty)>> : e \in frame})

PriceTrendRow(daily, cur) ==
    [date   |-> cur.order_date,
     price  |-> Round4(Rat(cur.total_value, cur.total_qty)),
     ma_30d |-> Round4(FrameAvg(Frame(daily, cur, 30))),
     ma_3m  |-> Round4(FrameAvg(Frame(daily, cur, 90)))]

\* ORDER BY order_date
RECURSIVE ByDate(_)
ByDate(rs) ==
    IF rs = {} THEN <<>>
    ELSE LET first == CHOOSE r \in rs : \A o \in rs : DayNumber(r.date) <= DayNumber(o.date)
         IN  <<first>> \o ByDate(rs \ {first})

PriceTrend(b, rows) ==
    IF StatementFails(b) THEN Failed("price-trend", 1)
    ELSE LET daily == Daily(Matching(b, rows))
         IN  Answered("price-trend",
                      ByDate({PriceTrendRow(daily, cur) : cur \in daily}), 1)

\* Most order lines in a table of the price trend.
MaxTrendLines == 5

TrendLine(id, state, date_order, qty, price) ==
    OrderLine(id, OrderOn(state, date_order), Some(qty), Some(price), Some(0), Some(0),
              Some(Some("kg")))

\* Two lines on 2025-04-01, and lines 29, 30, 31, 90 and 91 days before it;
\* lines of zero quantity, one on a day of its own; a draft order.
TrendPool ==
    {TrendLine(1, "purchase", Date(2025, 4, 1), 1, 4),
     TrendLine(2, "purchase", Date(2025, 4, 1), 3, 2),
     TrendLine(3, "purchase", Date(2025, 3, 3), 2, 1),
     TrendLine(4, "purchase", Date(2025, 3, 2), 1, 3),
     TrendLine(5, "done", Date(2025, 3, 1), 1, 2),
     TrendLine(6, "purchase", Date(2025, 1, 1), 2, 3),
     TrendLine(7, "purchase", Date(2024, 12, 31), 1, 1),
     TrendLine(8, "purchase", Date(2025, 3, 2), 0, 9),
     TrendLine(9, "purchase", Date(2025, 2, 1), 0, 5),
     TrendLine(10, "draft", Date(2025, 3, 15), 2, 2)}

TrendTables == {t \in SUBSET TrendPool : Cardinality(t) <= MaxTrendLines}
TrendQueries == {NoQuery, [NoQuery EXCEPT !.dateFrom = Some(Month_2024_12)]}

InitTrend ==
    /\ query \in TrendQueries
    /\ line = SomeLine
    /\ built = NoBuilt
    /\ verdict = "none"
    /\ pc = "agg"
    /\ LinesIdle
    /\ orders \in TrendTables
    /\ ares = NoAggRes
    /\ treq = NoTypeahead
    /\ picker = NoPicker
    /\ app = NoApp
    /\ inflight = NoInflight
    /\ auth = NoAuth

\* app.get('/api/po/price-trend')
PriceTrendHandle ==
    /\ pc = "agg"
    /\ built' = buildWhere(query)
    /\ ares' = PriceTrend(buildWhere(query), orders)
    /\ pc' = "answered"
    /\ UNCHANGED <<query, line, verdict, linesVars, orders, treq, picker, app, inflight, auth>>

NextTrend == PriceTrendHandle

SpecTrend == InitTrend /\ [][NextTrend]_vars

-----------------------------------------------------------------------------
(* Claims about /api/po/price-trend, under SpecTrend *)

TrendAnswered == pc = "answered" /\ ares.endpoint = "price-trend" /\ ares.status = 200

\* The selected lines of day dt, their total quantity, and the day's weighted
\* price: value over quantity.
LinesOn(dt) == {r \in Selected : r.l.date_order = dt}
QtyOn(dt) == Total({[r EXCEPT !.price_unit = Some(1)] : r \in LinesOn(dt)}, "product_qty")
ValueOn(dt) == Total(LinesOn(dt), "product_qty")
ResultDays == {ares.body[i].date : i \in 1..Len(ares.body)}

\* v ten-thousandths is the mean of the weighted prices of the days in ds.
IsMeanOf(v, ds) ==
    LET mean == RatAvg({<<dt, Rat(ValueOn(dt), QtyOn(dt))>> : dt \in ds})
    IN  2 * Abs(v * mean.d - 10000 * mean.n) <= Abs(mean.d)

\* The result days among the n calendar days that end at dt.
TrailingDays(dt, n) ==
    {e \in ResultDays : DayNumber(dt) - DayNumber(e) \in 0..(n - 1)}

\* The result days at most n days before dt, dt included.
DaysBack(dt, n) == {e \in ResultDays : DayNumber(dt) - DayNumber(e) \in 0..n}

OnlyPositiveDays ==
    /\ \A i \in 1..Len(ares.body) : QtyOn(ares.body[i].date) > 0
    /\ \A r \in Selected : QtyOn(r.l.date_order) > 0 => r.l.date_order \in ResultDays
    /\ \A i, j \in 1..Len(ares.body) : i # j => ares.body[i].date # ares.body[j].date

-----------------------------------------------------------------------------
(* The typeahead endpoints: /api/po/products and /api/po/skus *)

\* LIMIT 20
TypeaheadLimit == 20

\* (req.query.q || '').trim()
TypeaheadQ(r) == Trim(OrDefault(r.q, <<>>))

\* `%${q}%`
LikePattern(q) == <<"%">> \o q \o <<"%">>

\* TRIM(pt.name->>'en_US')
TrimName(l) == IF IsSome(l.name) THEN Some(Trim(Get(l.name))) ELSE None

\* The statement fails: it names a placeholder without a parameter, has a
\* parameter without a placeholder, or a conjunct of the filter fails.
TypeaheadFails(b, params, extra) ==
    \/ (Referenced(b.where) \cup extra) # 1..Len(params)
    \/ \E i \in 1..Len(b.where) : CondFails(b.where[i], params)

\* The first LIMIT rows.
Limit(ordered, n) == SubSeq(ordered, 1, IF Len(ordered) < n THEN Len(ordered) ELSE n)

\* The rank of a character, and text a before text b as ORDER BY compares them.
CharRank(c) ==
    IF c = " " THEN 0
    ELSE IF IsDigit(c) THEN 1 + DigitVal(c)
    ELSE IF \E i \in 1..26 : UpperCase[i] = c
    THEN 10 + (CHOOSE i \in 1..26 : UpperCase[i] = c)
    ELSE IF \E i \in 1..26 : LowerCase[i] = c
    THEN 40 + (CHOOSE i \in 1..26 : LowerCase[i] = c)
    ELSE 70
RECURSIVE TextLess(_, _)
TextLess(a, b) ==
    IF b = <<>> THEN FALSE
    ELSE IF a = <<>> THEN TRUE
    ELSE IF Head(a) # Head(b) THEN CharRank(Head(a)) < CharRank(Head(b))
    ELSE TextLess(Tail(a), Tail(b))
TextKeyLess(x, y) ==
    IF ~IsSome(x) THEN FALSE ELSE IF ~IsSome(y) THEN TRUE ELSE TextLess(Get(x), Get(y))

\* Every order of rs that is ascending in the text column col (NULL last).
RECURSIVE AscendingBy(_, _)
AscendingBy(rs, col) ==
    IF rs = {} THEN {<<>>}
    ELSE UNION {{<<r>> \o rest : rest \in AscendingBy(rs \ {r}, col)} :
                    r \in {m \in rs : \A o \in rs : ~TextKeyLess(o[col], m[col])}}

\* The index taken after the pattern was pushed, plus one.
LikeIdxAfterPush(params) == Len(params) + 2

\* const likeIdx = params.length + 1, taken before params.push(`%${q}%`)
LikeIdx(params) == Len(params) + 1

\* $${params.length} of tmplCond, taken after params.push(id)
TmplIdx(params) == Len(params)

\* The statement of /api/po/products: its parameters, and the rows it selects.
ProductsParams(b, q) == Append(b.params, Text(LikePattern(q)))
ProductsRows(b, q, rows) ==
    LET params  == ProductsParams(b, q)
        likeIdx == LikeIdx(b.params)
        kept    == {r \in rows :
                      /\ \A i \in 1..Len(b.where) : CondTrue(b.where[i], params, r.l)
                      /\ \/ ILike(TrimName(r.l), AsText(params[likeIdx]))
                         \/ ILike(r.l.pt_code, AsText(params[likeIdx]))}
    IN  {[tmpl_id |-> r.l.tmpl_id, product_name |-> TrimName(r.l),
          template_sku |-> r.l.pt_code] : r \in kept}

\* if (req.query.tmplId) { const id = parseInt(...); if (finite and > 0) push }
TmplScope(r) ==
    IF Truthy(r.tmplId) /\ IsFinite(parseInt(Get(r.tmplId))) /\ parseInt(Get(r.tmplId)).v > 0
    THEN <<IntV(parseInt(Get(r.tmplId)).v)>>
    ELSE <<>>

\* The statement of /api/po/skus.
SkusParams(b, r, q) == (b.params \o TmplScope(r)) \o <<Text(LikePattern(q))>>
SkusRows(b, r, q, rows) ==
    LET params  == SkusParams(b, r, q)
        scoped  == TmplScope(r) # <<>>
        tmplIdx == TmplIdx(b.params \o TmplScope(r))
        likeIdx == LikeIdx(b.params \o TmplScope(r))
        kept    == {o \in rows :
                      /\ \A i \in 1..Len(b.where) : CondTrue(b.where[i], params, o.l)
                      /\ scoped => o.l.tmpl_id = params[tmplIdx].n
                      /\ \/ ILike(Sku(o.l), AsText(params[likeIdx]))
                         \/ ILike(TrimName(o.l), AsText(params[likeIdx]))}
    IN  {[sku |-> Sku(o.l), product_name |-> TrimName(o.l)] : o \in kept}

\* The guard left out: every request goes to the database.
TooShortNever(q) == FALSE

\* if (q.length < 1) return res.json([])
TooShort(q) == Len(q) < 1

\* app.get('/api/po/products') on request r with filter fields f.
Products(r, f, rows) ==
    LET q == TypeaheadQ(r)
        b == buildWhere(f)
    IN  IF TooShort(q) THEN {Answered("products", <<>>, 0)}
        ELSE IF TypeaheadFails(b, ProductsParams(b, q), {LikeIdx(b.params)})
        THEN {Failed("products", 1)}
        ELSE {Answered("products", Limit(ordered, TypeaheadLimit), 1) :
                 ordered \in AscendingBy(ProductsRows(b, q, rows), "product_name")}

\* app.get('/api/po/skus') on request r with filter fields f.
Skus(r, f, rows) ==
    LET q == TypeaheadQ(r)
        b == buildWhere(f)
    IN  IF TooShort(q) THEN {Answered("skus", <<>>, 0)}
        ELSE IF TypeaheadFails(b, SkusParams(b, r, q),
                               {LikeIdx(b.params \o TmplScope(r))}
                               \cup (IF TmplScope(r) # <<>>
                                     THEN {TmplIdx(b.params \o TmplScope(r))}
                                     ELSE {}))
        THEN {Failed("skus", 1)}
        ELSE {Answered("skus", Limit(ordered, TypeaheadLimit), 1) :
                 ordered \in AscendingBy(SkusRows(b, r, q, rows), "sku")}

\* Longest q tried, and most order lines in the table.
MaxQLen == 2
MaxTypeaheadLines == 2

TypeaheadPool ==
    {OrderLine(1, Line("purchase", Date(2025, 2, 1), Some(Path_AB), Some(Str_S), None,
                       Some(<<"U", "s">>), 1),
               Some(1), Some(1), Some(0), Some(0), None),
     OrderLine(2, Line("purchase", Date(2025, 2, 2), Some(Path_A), None, Some(Str_T),
                       Some(<<" ", "s">>), 2),
               Some(1), Some(1), Some(0), Some(0), None),
     OrderLine(3, Line("done", Date(2025, 3, 1), None, Some(Str_U), Some(Str_T),
                       None, 1),
               Some(1), Some(1), Some(0), Some(0), None),
     OrderLine(4, Line("draft", Date(2025, 3, 2), Some(Path_A), Some(Str_S), None,
                       Some(<<"s">>), 3),
               Some(1), Some(1), Some(0), Some(0), None)}

TypeaheadTables == {t \in SUBSET TypeaheadPool : Cardinality(t) <= MaxTypeaheadLines}
TypeaheadStrings == StringsUpTo({" ", "s", "t"}, MaxQLen)
TypeaheadRequests ==
    {[endpoint |-> e, q |-> q, tmplId |-> id] :
        e \in {"products", "skus"},
        q \in {None} \cup {Some(t) : t \in TypeaheadStrings},
        id \in {None, Some(<<"1">>), Some(<<"x">>)}}
TypeaheadFilters ==
    {NoQuery, [NoQuery EXCEPT !.catL1 = Some(Str_A)],
     [NoQuery EXCEPT !.dateTo = Some(Month_2025_12), !.search = Some(<<"s">>)],
     [NoQuery EXCEPT !.skus = Some(<<"S", ",", "T">>),
                     !.productTmplIds = Some(<<"1", ",", "3">>)],
     Query(Some(Month_2025_02), Some(Month_2025_12), Some(Str_A), Some(Str_B),
           Some(Str_C), Some(<<"s">>), Some(<<"S", ",", "T">>),
           Some(<<"1", ",", "3">>))}

InitTypeahead ==
    /\ query \in TypeaheadFilters
    /\ line = SomeLine
    /\ built = NoBuilt
    /\ verdict = "none"
    /\ pc = "typeahead"
    /\ LinesIdle
    /\ orders \in TypeaheadTables
    /\ ares = NoAggRes
    /\ treq \in TypeaheadRequests
    /\ picker = NoPicker
    /\ app = NoApp
    /\ inflight = NoInflight
    /\ auth = NoAuth

ProductsHandle ==
    /\ pc = "typeahead"
    /\ treq.endpoint = "products"
    /\ ares' \in Products(treq, query, orders)
    /\ built' = IF TooShort(TypeaheadQ(treq)) THEN built ELSE buildWhere(query)
    /\ pc' = "answered"
    /\ UNCHANGED <<query, line, verdict, linesVars, orders, treq, picker, app, inflight, auth>>

SkusHandle ==
    /\ pc = "typeahead"
    /\ treq.endpoint = "skus"
    /\ ares' \in Skus(treq, query, orders)
    /\ built' = IF TooShort(TypeaheadQ(treq)) THEN built ELSE buildWhere(query)
    /\ pc' = "answered"
    /\ UNCHANGED <<query, line, verdict, linesVars, orders, treq, picker, app, inflight, auth>>

NextTypeahead == ProductsHandle \/ SkusHandle

SpecTypeahead == InitTypeahead /\ [][NextTypeahead]_vars

-----------------------------------------------------------------------------
(* Claims about the typeahead endpoints, under SpecTypeahead *)

TypeaheadAnswered == pc = "answered" /\ ares.endpoint \in {"products", "skus"}

\* C16: a typeahead request whose q is absent or of length 0 is answered with
\* an empty list, not an error, and no database query is executed for it.
C16_EmptyQNoQuery ==
    TypeaheadAnswered /\ (~IsSome(treq.q) \/ Len(Get(treq.q)) = 0) =>
        /\ ares.status = 200
        /\ ares.body = <<>>
        /\ ares.queries = 0

\* q is absent, for each endpoint in turn, while the table holds lines that a
\* query for everything would return.
C16_Witness ==
    /\ TypeaheadAnswered
    /\ ~IsSome(treq.q)
    /\ treq.endpoint = "skus"
    /\ \E r \in orders : Confirmed(r.l)
    /\ ares.queries = 0

\* The values a conjunct of the filter stands for, one per placeholder it
\* holds, for filter fields q.
OwnValues(c, q) ==
    CASE c.kind = "date_ge" ->
            <<Text((IF Truthy(q.dateFrom) THEN Get(q.dateFrom) ELSE DefaultFrom)
                   \o <<"-", "0", "1">>)>>
      [] c.kind = "date_lt" -> <<Text(NextMonth(Get(q.dateTo)))>>
      [] c.kind = "cat" ->
            <<Text(Get(IF c.level = 1 THEN q.catL1
                       ELSE IF c.level = 2 THEN q.catL2 ELSE q.catL3))>>
      [] c.kind = "search" ->
            <<Text(<<"%">> \o Get(q.search) \o <<"%">>),
              Text(<<"%">> \o Get(q.search) \o <<"%">>)>>
      [] c.kind = "sku_in" ->
            [j \in 1..Len(SkuList(Get(q.skus))) |-> Text(SkuList(Get(q.skus))[j])]
      [] c.kind = "tmpl_in" ->
            [j \in 1..Len(TmplIds(Get(q.productTmplIds))) |->
                IntV(TmplIds(Get(q.productTmplIds))[j].v)]
      [] OTHER -> <<>>

\* The place of a conjunct in the append order of the filter.
AppendRank(c) ==
    CASE c.kind = "state" -> 0
      [] c.kind = "date_ge" -> 1
      [] c.kind \in {"date_lt", "date_lt_sentinel"} -> 2
      [] c.kind = "cat" -> 2 + c.level
      [] c.kind = "search" -> 6
      [] c.kind = "sku_in" -> 7
      [] c.kind = "tmpl_in" -> 8
      [] OTHER -> 9

\* The values params holds at the placeholders of conjunct c.
Bound(c, params) ==
    [j \in 1..Len(c.ph) |->
        IF c.ph[j] \in 1..Len(params) THEN <<params[c.ph[j]]>> ELSE <<>>]

\* A typeahead request that went to the database.
TypeaheadQueried == pc = "answered" /\ ~TooShort(TypeaheadQ(treq))

\* The parameters of the typeahead statement, those before the pattern was
\* pushed, and the pattern.
StatementParams ==
    IF treq.endpoint = "products" THEN ProductsParams(built, TypeaheadQ(treq))
    ELSE SkusParams(built, treq, TypeaheadQ(treq))
ParamsBeforePattern ==
    IF treq.endpoint = "products" THEN built.params
    ELSE built.params \o TmplScope(treq)
Pattern == Text(<<"%">> \o TypeaheadQ(treq) \o <<"%">>)

\* C21: in the statement of a typeahead request, every placeholder of the
\* filter binds the value of the conjunct that holds it, the conjuncts and
\* their placeholders stand in append order, the tmplId condition reads the
\* index its id was pushed at, the LIKE reads the index the pattern was pushed
\* at, and the statement is accepted.
C21_PlaceholdersBindOwnValues ==
    TypeaheadQueried =>
        /\ \A i \in 1..Len(built.where) :
              Bound(built.where[i], StatementParams)
                  = [j \in 1..Len(built.where[i].ph) |->
                        <<OwnValues(built.where[i], query)[j]>>]
        /\ \A i \in 1..Len(built.where), k \in 1..Len(built.where) :
              i < k =>
                  /\ AppendRank(built.where[i]) < AppendRank(built.where[k])
                  /\ \A a \in 1..Len(built.where[i].ph), c \in 1..Len(built.where[k].ph) :
                        built.where[i].ph[a] < built.where[k].ph[c]
        /\ LikeIdx(ParamsBeforePattern) \in 1..Len(StatementParams)
        /\ StatementParams[LikeIdx(ParamsBeforePattern)] = Pattern
        /\ LikeIdx(ParamsBeforePattern) = Len(StatementParams)
        /\ (treq.endpoint = "skus" /\ treq.tmplId = Some(<<"1">>)) =>
              /\ TmplIdx(ParamsBeforePattern) = Len(built.params) + 1
              /\ StatementParams[TmplIdx(ParamsBeforePattern)] = IntV(1)
        /\ ares.status = 200

\* A skus request with tmplId = 1 and every filter field set was answered.
C21_Witness ==
    /\ TypeaheadQueried
    /\ treq.endpoint = "skus"
    /\ treq.tmplId = Some(<<"1">>)
    /\ Len(built.where) = 9
    /\ Len(StatementParams) = 12
    /\ ares.status = 200

-----------------------------------------------------------------------------
(* The SKU picker of the filter bar (the product picker has the same shape) *)

\* Most SKUs selected at once, and most requests of the picker under way.
MaxSelected == 2
MaxFetches == 2

\* What the user may have in the input box.
PickerInputs == {<<>>, <<"s">>, <<"t">>}

\* The table behind /api/po/skus while the picker is used.
PickerTable == {r \in TypeaheadPool : r.id \in {1, 2}}

\* array.includes(x)
Includes(array, x) == \E i \in 1..Len(array) : array[i] = x

\* array.filter(keep): the elements at which keep holds, in order.
RECURSIVE FilterOut(_, _)
FilterOut(data, selected) ==
    IF data = <<>> THEN <<>>
    ELSE IF IsSome(Head(data).sku) /\ Includes(selected, Get(Head(data).sku))
    THEN FilterOut(Tail(data), selected)
    ELSE <<Head(data)>> \o FilterOut(Tail(data), selected)

\* The effect of the picker, run after query or selected has changed: its
\* cleanup clears the pending timer, then a short query empties the list and
\* any other query arms a timer that holds the query and the selection of now.
PickerEffect(p) ==
    IF Len(p.query) < 1
    THEN [p EXCEPT !.timer = None, !.results = <<>>, !.open = FALSE]
    ELSE [p EXCEPT !.timer = Some([query |-> p.query, selected |-> p.selected])]

InitPicker ==
    /\ query = NoQuery
    /\ line = SomeLine
    /\ built = NoBuilt
    /\ verdict = "none"
    /\ pc = "picker"
    /\ LinesIdle
    /\ orders = PickerTable
    /\ ares = NoAggRes
    /\ treq = NoTypeahead
    /\ picker = NoPicker
    /\ app = NoApp
    /\ inflight = NoInflight
    /\ auth = NoAuth

pickerOnly ==
    <<query, line, built, verdict, pc, linesVars, orders, ares, treq, app, inflight, auth>>

\* onChange of the input: setQuery(e.target.value)
PickerType ==
    /\ pc = "picker"
    /\ \E text \in PickerInputs \ {picker.query} :
          picker' = PickerEffect([picker EXCEPT !.query = text])
    /\ UNCHANGED pickerOnly

\* The 280 ms timer fires: setLoading(true) and the request leaves.
PickerTimerFires ==
    /\ pc = "picker"
    /\ IsSome(picker.timer)
    /\ Cardinality(picker.fetches) < MaxFetches
    /\ picker' = [picker EXCEPT !.timer = None, !.loading = TRUE,
                                !.fetches = @ \cup {Get(picker.timer)}]
    /\ UNCHANGED pickerOnly

\* The response of a request arrives: setResults(data.filter(...)),
\* setOpen(true), and setLoading(false) in finally.
PickerResponse ==
    /\ pc = "picker"
    /\ \E f \in picker.fetches :
          \E res \in Skus([endpoint |-> "skus", q |-> Some(f.query), tmplId |-> None],
                          query, orders) :
             picker' = [picker EXCEPT !.fetches = @ \ {f}, !.loading = FALSE,
                                      !.results = FilterOut(res.body, f.selected),
                                      !.open = TRUE]
    /\ UNCHANGED pickerOnly

\* The request fails (no response, or a body that is not JSON): finally only.
PickerResponseFails ==
    /\ pc = "picker"
    /\ \E f \in picker.fetches :
          picker' = [picker EXCEPT !.fetches = @ \ {f}, !.loading = FALSE]
    /\ UNCHANGED pickerOnly

\* onMouseDown of a suggestion: pick(sku)
PickerPick ==
    /\ pc = "picker"
    /\ picker.open
    /\ Len(picker.selected) < MaxSelected
    /\ \E i \in 1..Len(picker.results) :
          /\ IsSome(picker.results[i].sku)
          /\ picker' = PickerEffect([picker EXCEPT
                            !.selected = Append(@, Get(picker.results[i].sku)),
                            !.query = <<>>, !.results = <<>>, !.open = FALSE])
    /\ UNCHANGED pickerOnly

\* onClick of the cross of a chip: onRemove(sku)
PickerRemove ==
    /\ pc = "picker"
    /\ \E i \in 1..Len(picker.selected) :
          picker' = PickerEffect([picker EXCEPT
                        !.selected = SelectSeq(@, LAMBDA x : x # picker.selected[i])])
    /\ UNCHANGED pickerOnly

NextPicker ==
    \/ PickerType
    \/ PickerTimerFires
    \/ PickerResponse
    \/ PickerResponseFails
    \/ PickerPick
    \/ PickerRemove

SpecPicker == InitPicker /\ [][NextPicker]_vars

\* C17: under every interleaving of typing, timer firing, response arrival,
\* picking and removing, the suggestion list of the picker never holds a SKU
\* that is currently selected.
C17_NoSelectedSkuSuggested ==
    \A i \in 1..Len(picker.results) :
        IsSome(picker.results[i].sku) =>
            ~Includes(picker.selected, Get(picker.results[i].sku))

-----------------------------------------------------------------------------
(* The App component of the client: fetchAll and the category chart *)

\* Most loads in a behaviour, and most failing queries in a load.
MaxLoads == 2
MaxFailedQueries == 1

\* The endpoints of one load, in the order of the Promise.all of fetchAll.
Endpoints ==
    {"kpis", "monthly", "by-category", "by-uom", "price-trend", "price-by-quarter",
     "lines"}

\* The category fields of the filter state: '' when not set, or a category
\* name (here one that is a truthy string although it reads as zero).
CatValues == {<<>>, <<"0">>}
FilterStates ==
    {[catL1 |-> a, catL2 |-> b, catL3 |-> <<>>] : a \in CatValues, b \in CatValues}
DEFAULT_FILTERS == [catL1 |-> <<>>, catL2 |-> <<>>, catL3 |-> <<>>]

\* toQS(filters): the pairs of the query string; a field that is '' is left out.
toQS(filters) ==
    (IF filters.catL1 # <<>> THEN <<<<"catL1", filters.catL1>>>> ELSE <<>>)
    \o (IF filters.catL2 # <<>> THEN <<<<"catL2", filters.catL2>>>> ELSE <<>>)
    \o (IF filters.catL3 # <<>> THEN <<<<"catL3", filters.catL3>>>> ELSE <<>>)

\* req.query[key] of the server for a query string: undefined when absent.
ReqQuery(qs, key) ==
    IF \E i \in 1..Len(qs) : qs[i][1] = key
    THEN Some(qs[CHOOSE i \in 1..Len(qs) : qs[i][1] = key][2])
    ELSE None

\* The level is taken from catL1 alone.
ByCategoryLevelFromL1(qs) == IF Truthy(ReqQuery(qs, "catL1")) THEN 2 ELSE 1

\* const level = req.query.catL2 ? 3 : req.query.catL1 ? 2 : 1
ByCategoryLevel(qs) ==
    IF Truthy(ReqQuery(qs, "catL2")) THEN 3
    ELSE IF Truthy(ReqQuery(qs, "catL1")) THEN 2
    ELSE 1

\* CategoryChart: const level = activeL2 ? 3 : activeL1 ? 2 : 1
ChartLevel(filters) ==
    IF filters.catL2 # <<>> THEN 3 ELSE IF filters.catL1 # <<>> THEN 2 ELSE 1

\* CategoryChart: const nextLevel = level === 1 ? 1 : level === 2 ? 2 : 3
ChartNextLevel(filters) ==
    IF ChartLevel(filters) = 1 THEN 1 ELSE IF ChartLevel(filters) = 2 THEN 2 ELSE 3

\* onDrillDown keeping the fields below the one it writes.
DrillDownKeep(filters, cat, level) ==
    IF level = 1 THEN [filters EXCEPT !.catL1 = cat]
    ELSE IF level = 2 THEN [filters EXCEPT !.catL2 = cat]
    ELSE [filters EXCEPT !.catL3 = cat]

\* onDrillDown(cat, level) of App: the filter state after the click.
DrillDown(filters, cat, level) ==
    IF level = 1 THEN [filters EXCEPT !.catL1 = cat, !.catL2 = <<>>, !.catL3 = <<>>]
    ELSE IF level = 2 THEN [filters EXCEPT !.catL2 = cat, !.catL3 = <<>>]
    ELSE [filters EXCEPT !.catL3 = cat]

\* The body of a response: of which load and endpoint, an error payload
\* {error: message} or data, and for by-category the level it is grouped by.
Body(load, endpoint, isError, level) ==
    [load |-> load, endpoint |-> endpoint, error |-> isError, level |-> level]
Empty == [load |-> 0, endpoint |-> "", error |-> FALSE, level |-> 0]

\* What the server answers to the request of endpoint e of load n.
ServerAnswer(n, e, qs, fails) ==
    Body(n, e, fails, IF e = "by-category" /\ ~fails THEN ByCategoryLevel(qs) ELSE 0)

\* A load (one call of fetchAll): its number, the filter state it was started
\* for, its query string, and each request: pending, rejected (no response), or
\* resolved with a body.
Pending == [state |-> "pending", body |-> Empty]
Rejected == [state |-> "rejected", body |-> Empty]
ResolvedWith(body) == [state |-> "resolved", body |-> body]
NewLoad(n, filters) ==
    [n |-> n, filters |-> filters, qs |-> toQS(filters), phase |-> "fetching",
     responses |-> [e \in Endpoints |-> Pending]]

Resolved(load) == {e \in Endpoints : load.responses[e].state = "resolved"}
FailedQueries(load) ==
    {e \in Endpoints : load.responses[e].state = "rejected"}
    \cup {e \in Resolved(load) : load.responses[e].body.error}

\* fetchAll up to its first await: setLoading(true), setError(null), and the
\* seven requests leave together.  The call before it has returned and is
\* referenced no more.
StartLoad(a, filters) ==
    [a EXCEPT !.filters = filters, !.loading = TRUE, !.error = None,
              !.issued = @ + 1,
              !.loads = <<NewLoad(a.issued + 1, filters)>>]

Current == app.loads[Len(app.loads)]
Fetching == app.loads # <<>> /\ Current.phase = "fetching"
MayLoad == pc = "app" /\ ~Fetching /\ app.issued < MaxLoads

InitLoad ==
    /\ query = NoQuery
    /\ line = SomeLine
    /\ built = NoBuilt
    /\ verdict = "none"
    /\ pc = "app"
    /\ LinesIdle
    /\ orders = NoOrders
    /\ ares = NoAggRes
    /\ treq = NoTypeahead
    /\ picker = NoPicker
    /\ app = [filters |-> DEFAULT_FILTERS, page |-> 1,
              sections |-> [e \in Endpoints |-> Empty], error |-> None,
              loading |-> FALSE, issued |-> 0, loads |-> <<>>]
    /\ inflight = NoInflight
    /\ auth = NoAuth

appOnly ==
    <<query, line, built, verdict, pc, linesVars, orders, ares, treq, picker, inflight, auth>>

\* useEffect(() => { fetchAll() }, [fetchAll]) on mount, and the Refresh button.
AppRefresh ==
    /\ MayLoad
    /\ app' = StartLoad(app, app.filters)
    /\ UNCHANGED appOnly

\* handleFiltersChange(f) from the filter bar: setPage(1), setFilters(f), and
\* the effect runs fetchAll for the new filters.
AppFiltersChange ==
    /\ MayLoad
    /\ app.loads # <<>>
    /\ \E f \in FilterStates \ {app.filters} :
          app' = StartLoad([app EXCEPT !.page = 1], f)
    /\ UNCHANGED appOnly

\* A click on a bar of the category chart.
AppDrillDown ==
    /\ MayLoad
    /\ app.sections["by-category"].load # 0
    /\ ~app.sections["by-category"].error
    /\ ChartLevel(app.filters) < 3
    /\ \E cat \in CatValues \ {<<>>} :
          app' = StartLoad([app EXCEPT !.page = 1],
                           DrillDown(app.filters, cat, ChartNextLevel(app.filters)))
    /\ UNCHANGED appOnly

\* The response of one request arrives, a success or an error response.
AppResponse ==
    /\ pc = "app"
    /\ app.loads # <<>>
    /\ \E e \in Endpoints, fails \in BOOLEAN :
          /\ Current.responses[e] = Pending
          /\ fails => Cardinality(FailedQueries(Current)) < MaxFailedQueries
          /\ app' = [app EXCEPT !.loads[Len(app.loads)].responses[e] =
                        ResolvedWith(ServerAnswer(Current.n, e, Current.qs, fails))]
    /\ UNCHANGED appOnly

\* A request gets no response: its fetch rejects, so does the first
\* Promise.all, and the catch and finally of fetchAll run.  The other
\* requests of the load stay under way.
AppRequestRejected ==
    /\ pc = "app"
    /\ Fetching
    /\ Cardinality(FailedQueries(Current)) < MaxFailedQueries
    /\ \E e \in Endpoints :
          /\ Current.responses[e] = Pending
          /\ app' = [app EXCEPT !.loads[Len(app.loads)].responses[e] = Rejected,
                                !.loads[Len(app.loads)].phase = "failed",
                                !.error = Some("message"),
                                !.loading = FALSE]
    /\ UNCHANGED appOnly

\* Every response is there: both Promise.all resolve and fetchAll runs to its
\* end: the throw on k.error, or the seven setters; then finally.
AppLoadCompletes ==
    /\ pc = "app"
    /\ Fetching
    /\ Resolved(Current) = Endpoints
    /\ app' = IF Current.responses["kpis"].body.error
              THEN [app EXCEPT !.loads[Len(app.loads)].phase = "done",
                               !.error = Some("message"),
                               !.loading = FALSE]
              ELSE [app EXCEPT !.loads[Len(app.loads)].phase = "done",
                               !.sections = [e \in Endpoints |-> Current.responses[e].body],
                               !.loading = FALSE]
    /\ UNCHANGED appOnly

NextLoad ==
    \/ AppRefresh
    \/ AppFiltersChange
    \/ AppDrillDown
    \/ AppResponse
    \/ AppRequestRejected
    \/ AppLoadCompletes

SpecLoad == InitLoad /\ [][NextLoad]_vars

\* The by-category response of the load under way or last finished, when it
\* has arrived and is not an error payload.
ByCategoryAnswered ==
    /\ pc = "app"
    /\ app.loads # <<>>
    /\ Current.responses["by-category"].state = "resolved"
    /\ ~Current.responses["by-category"].body.error

\* C14: the level the by-category endpoint groups by is 3 when catL2 of the
\* filter state is set, else 2 when catL1 is set, else 1, and it is the level
\* the category chart labels and passes to onDrillDown for the same filters.
C14_ChartLevelIsServerLevel ==
    ByCategoryAnswered =>
        LET grouped == Current.responses["by-category"].body.level
            f == Current.filters
        IN  /\ grouped = (IF f.catL2 # <<>> THEN 3 ELSE IF f.catL1 # <<>> THEN 2 ELSE 1)
            /\ ChartLevel(f) = grouped
            /\ ChartNextLevel(f) = grouped

\* A load for filters with catL2 set and catL1 empty has its by-category
\* response.
C14_Witness ==
    /\ ByCategoryAnswered
    /\ Current.filters.catL1 = <<>>
    /\ Current.filters.catL2 = <<"0">>
    /\ Current.responses["by-category"].body.level = 3

\* A load whose every request got a response, one of them an error response.
FinishedWithErrorResponse ==
    /\ pc = "app"
    /\ app.loads # <<>>
    /\ Current.phase = "done"
    /\ \E e \in Endpoints : Current.responses[e].body.error

\* C18: a load in which an endpoint answered with an error response finishes
\* with the error banner set, and no section holds an error payload.
C18_ErrorResponseSetsBanner ==
    FinishedWithErrorResponse =>
        /\ app.error # None
        /\ \A e \in Endpoints : ~app.sections[e].error

\* C19: the seven requests of a load leave together; a section holds data of a
\* load only when every request of that load has resolved; and a load that is
\* over with a failed query has set the error.
C19_FanOutFanInAndFailureSurfaces ==
    (pc = "app" /\ app.loads # <<>>) =>
        /\ DOMAIN Current.responses = Endpoints
        /\ \A e \in Endpoints :
              app.sections[e].load = Current.n => Resolved(Current) = Endpoints
        /\ (Current.phase # "fetching" /\ FailedQueries(Current) # {}) =>
              app.error # None

-----------------------------------------------------------------------------
(* The handlers of /api/po on the server: queries under way and responses *)

\* Most requests the server is handling in a behaviour.
MaxRequests == 2

ServerEndpoints ==
    {"kpis", "monthly", "by-category", "lines", "filters", "price-trend",
     "price-by-quarter", "products", "skus", "by-uom"}

\* err.message of a failing pool.query
DbMessages == {"timeout", "syntax"}

\* The pool.query calls a handler makes before its await: two under one
\* Promise.all for lines and filters, none for a typeahead with a too short q,
\* one otherwise.
QueryCount(endpoint, tooShort) ==
    IF endpoint \in {"lines", "filters"} THEN 2
    ELSE IF endpoint \in {"products", "skus"} /\ tooShort THEN 0
    ELSE 1

Running == [state |-> "running", message |-> ""]
Succeeded == [state |-> "ok", message |-> ""]
FailedWith(message) == [state |-> "failed", message |-> message]

\* res.json(data) and res.status(500).json({ error: err.message })
JsonData == [status |-> 200, error |-> None]
JsonError(message) == [status |-> 500, error |-> Some(message)]

\* The handler from its start to its await, or to return res.json([]).
Arrive(endpoint, tooShort) ==
    LET n == QueryCount(endpoint, tooShort)
    IN  IF n = 0
        THEN [endpoint |-> endpoint, queries |-> <<>>, awaiting |-> FALSE,
              responses |-> <<JsonData>>]
        ELSE [endpoint |-> endpoint, queries |-> [k \in 1..n |-> Running],
              awaiting |-> TRUE, responses |-> <<>>]

\* The handler resumes whenever a query settles.
AwaitingAlways(req) == TRUE

\* The handler is suspended at its await: the promise it waits for has not
\* settled.
Awaiting(req) == req.awaiting

\* A query of the request settles.  The awaited promise (of the one query, or
\* Promise.all of the two) rejects with the first failure and fulfils when all
\* have succeeded; the handler then resumes, in catch or after the await, writes
\* its response and returns.  A query that settles later resumes nothing.
Settle(req, k, outcome) ==
    LET queries == [req.queries EXCEPT ![k] = outcome]
    IN  IF ~Awaiting(req)
        THEN [req EXCEPT !.queries = queries]
        ELSE IF outcome.state = "failed"
        THEN [req EXCEPT !.queries = queries, !.awaiting = FALSE,
                         !.responses = Append(@, JsonError(outcome.message))]
        ELSE IF \A j \in 1..Len(queries) : queries[j].state = "ok"
        THEN [req EXCEPT !.queries = queries, !.awaiting = FALSE,
                         !.responses = Append(@, JsonData)]
        ELSE [req EXCEPT !.queries = queries]

InitServer ==
    /\ query = NoQuery
    /\ line = SomeLine
    /\ built = NoBuilt
    /\ verdict = "none"
    /\ pc = "server"
    /\ LinesIdle
    /\ orders = NoOrders
    /\ ares = NoAggRes
    /\ treq = NoTypeahead
    /\ picker = NoPicker
    /\ app = NoApp
    /\ inflight = <<>>
    /\ auth = NoAuth

serverOnly ==
    <<query, line, built, verdict, pc, linesVars, orders, ares, treq, picker, app, auth>>

\* app.get('/api/po/...', async (req, res) => { ... }) is called for a request.
ServerRequest ==
    /\ pc = "server"
    /\ Len(inflight) < MaxRequests
    /\ \E endpoint \in ServerEndpoints, tooShort \in BOOLEAN :
          /\ tooShort => endpoint \in {"products", "skus"}
          /\ inflight' = Append(inflight, Arrive(endpoint, tooShort))
    /\ UNCHANGED serverOnly

\* A query of a request returns its rows.
ServerQuerySucceeds ==
    /\ pc = "server"
    /\ \E i \in 1..Len(inflight) : \E k \in 1..Len(inflight[i].queries) :
          /\ inflight[i].queries[k] = Running
          /\ inflight' = [inflight EXCEPT ![i] = Settle(@, k, Succeeded)]
    /\ UNCHANGED serverOnly

\* A query of a request fails with a database error.
ServerQueryFails ==
    /\ pc = "server"
    /\ \E i \in 1..Len(inflight) : \E k \in 1..Len(inflight[i].queries) :
          /\ inflight[i].queries[k] = Running
          /\ \E message \in DbMessages :
                inflight' = [inflight EXCEPT ![i] = Settle(@, k, FailedWith(message))]
    /\ UNCHANGED serverOnly

NextServer ==
    \/ ServerRequest
    \/ ServerQuerySucceeds
    \/ ServerQueryFails

SpecServer == InitServer /\ [][NextServer]_vars

FailedOf(req) == {k \in 1..Len(req.queries) : req.queries[k].state = "failed"}
AllSucceeded(req) == \A k \in 1..Len(req.queries) : req.queries[k].state = "ok"

\* C20: a request with a failed query has exactly one response, status 500
\* with the message of a failed query as its error, also when it has two
\* queries under one Promise.all; a request none of whose queries failed has
\* no response but a success, exactly one once all its queries returned.
C20_OneErrorResponsePerFailedRequest ==
    \A i \in 1..Len(inflight) :
        LET req == inflight[i]
        IN  /\ Len(req.responses) <= 1
            /\ FailedOf(req) # {} =>
                  /\ Len(req.responses) = 1
                  /\ req.responses[1].status = 500
                  /\ \E k \in FailedOf(req) :
                        req.responses[1].error = Some(req.queries[k].message)
            /\ FailedOf(req) = {} =>
                  /\ \A j \in 1..Len(req.responses) : req.responses[j] = JsonData
                  /\ AllSucceeded(req) => Len(req.responses) = 1

\* Both queries of a lines request have failed, the data query first, while a
\* kpis request that arrived after it was answered with its data.
C20_Witness ==
    /\ pc = "server"
    /\ Len(inflight) = 2
    /\ inflight[1].endpoint = "lines"
    /\ inflight[1].queries = <<FailedWith("timeout"), FailedWith("syntax")>>
    /\ inflight[1].responses = <<JsonError("syntax")>>
    /\ inflight[2].endpoint = "kpis"
    /\ inflight[2].queries = <<Succeeded>>
    /\ inflight[2].responses = <<JsonData>>

-----------------------------------------------------------------------------
(* The App component over a session: the controls and loads that overlap *)

\* Most loads issued in a behaviour, and the pages of the table one can go to.
MaxIssued == 4
MaxPage == 2

\* The columns whose headers are clicked.
SortKeys == {"month", "sku"}

\* The name of a category of the given level of the tree: what the bars of a
\* by-category response grouped at that level are called, and what the select
\* of that level offers.
CategoryAt(level) == <<"L", IF level = 1 THEN "1" ELSE IF level = 2 THEN "2" ELSE "3">>

\* A call of fetchAll: the state its closure holds, and how it ended.
SessionLoad(a) ==
    [filters |-> a.filters, page |-> a.page, sortBy |-> a.sortBy,
     sortDir |-> a.sortDir, state |-> "pending"]

\* What the seven setters of a load put on display, all in one render; the
\* by-category rows are grouped at the level the server took from the query.
DataOf(n, load) ==
    [n |-> n, filters |-> load.filters, page |-> load.page, sortBy |-> load.sortBy,
     sortDir |-> load.sortDir, level |-> ByCategoryLevel(toQS(load.filters))]
NoData ==
    [n |-> 0, filters |-> DEFAULT_FILTERS, page |-> 0, sortBy |-> "", sortDir |-> "",
     level |-> 0]

\* useEffect(() => { fetchAll() }, [fetchAll]): the render after a state change
\* calls the new fetchAll, which runs to its first await.
fetchAll(a) ==
    [a EXCEPT !.loading = TRUE, !.error = None, !.issued = @ + 1,
              !.loads = Append(@, SessionLoad(a))]

\* handleFiltersChange without setPage(1).
handleFiltersChangeKeepPage(a, f) == fetchAll([a EXCEPT !.filters = f])

\* handleFiltersChange(f): setPage(1), setFilters(f), batched into one render.
handleFiltersChange(a, f) == fetchAll([a EXCEPT !.page = 1, !.filters = f])

\* handleSort(col)
handleSort(a, col) ==
    fetchAll(IF col = a.sortBy
             THEN [a EXCEPT !.sortDir = IF @ = "asc" THEN "desc" ELSE "asc", !.page = 1]
             ELSE [a EXCEPT !.sortBy = col, !.sortDir = "desc", !.page = 1])

\* l2s and l3s of FiltersBar are not empty: the selects of levels 2 and 3 show.
HasL2s(filters) == filters.catL1 = CategoryAt(1)
HasL3s(filters) == filters.catL1 = CategoryAt(1) /\ filters.catL2 = CategoryAt(2)

\* hasFilters of FiltersBar, and breadcrumb of CategoryChart
HasFilters(filters) ==
    filters.catL1 # <<>> \/ filters.catL2 # <<>> \/ filters.catL3 # <<>>
Breadcrumb(filters) == filters.catL1 # <<>> \/ filters.catL2 # <<>>

InitSession ==
    /\ query = NoQuery
    /\ line = SomeLine
    /\ built = NoBuilt
    /\ verdict = "none"
    /\ pc = "session"
    /\ LinesIdle
    /\ orders = NoOrders
    /\ ares = NoAggRes
    /\ treq = NoTypeahead
    /\ picker = NoPicker
    /\ app = [filters |-> DEFAULT_FILTERS, page |-> 1, sortBy |-> "month",
              sortDir |-> "desc", shown |-> NoData, error |-> None,
              loading |-> FALSE, issued |-> 0, loads |-> <<>>,
              last |-> <<"none", "">>]
    /\ inflight = NoInflight
    /\ auth = NoAuth

\* The user can act: the component is mounted and the behaviour has loads left.
MayAct == pc = "session" /\ app.issued \in 1..(MaxIssued - 1)
\* The category chart is rendered, and it has bars.
ChartRendered == ~(app.loading /\ app.shown.n = 0)
HasBars == app.shown.n # 0

Did(a, op, arg) == [a EXCEPT !.last = <<op, arg>>]

\* The effect of the first render.
UiMount ==
    /\ pc = "session"
    /\ app.issued = 0
    /\ app' = Did(fetchAll(app), "mount", "")
    /\ UNCHANGED appOnly

\* onClick={fetchAll} of the Refresh button
UiRefresh ==
    /\ MayAct
    /\ app' = Did(fetchAll(app), "refresh", "")
    /\ UNCHANGED appOnly

\* onChange of the Category select
UiSelectL1 ==
    /\ MayAct
    /\ \E v \in {<<>>, CategoryAt(1)} \ {app.filters.catL1} :
          app' = Did(handleFiltersChange(app,
                        [app.filters EXCEPT !.catL1 = v, !.catL2 = <<>>, !.catL3 = <<>>]),
                     "select", "catL1")
    /\ UNCHANGED appOnly

\* onChange of the Sub-category select
UiSelectL2 ==
    /\ MayAct
    /\ HasL2s(app.filters)
    /\ \E v \in {<<>>, CategoryAt(2)} \ {app.filters.catL2} :
          app' = Did(handleFiltersChange(app,
                        [app.filters EXCEPT !.catL2 = v, !.catL3 = <<>>]),
                     "select", "catL2")
    /\ UNCHANGED appOnly

\* onChange of the Type select
UiSelectL3 ==
    /\ MayAct
    /\ HasL3s(app.filters)
    /\ \E v \in {<<>>, CategoryAt(3)} \ {app.filters.catL3} :
          app' = Did(handleFiltersChange(app, [app.filters EXCEPT !.catL3 = v]),
                     "select", "catL3")
    /\ UNCHANGED appOnly

\* reset of FiltersBar
UiReset ==
    /\ MayAct
    /\ HasFilters(app.filters)
    /\ app' = Did(handleFiltersChange(app, DEFAULT_FILTERS), "reset", "")
    /\ UNCHANGED appOnly

\* onClick={() => onDrillDown('', 1)} of the breadcrumb button
UiBreadcrumb ==
    /\ MayAct
    /\ ChartRendered
    /\ Breadcrumb(app.filters)
    /\ app' = Did(handleFiltersChange(app, DrillDown(app.filters, <<>>, 1)),
                  "breadcrumb", "")
    /\ UNCHANGED appOnly

\* onClick of a bar: if (level < 3) onDrillDown(item.fullName, nextLevel); the
\* bars are the by-category rows on display.
UiBarClick ==
    /\ MayAct
    /\ ChartRendered
    /\ HasBars
    /\ ChartLevel(app.filters) < 3
    /\ app' = Did(handleFiltersChange(app,
                     DrillDown(app.filters, CategoryAt(app.shown.level),
                               ChartNextLevel(app.filters))),
                  "bar", "")
    /\ UNCHANGED appOnly

\* onClick={() => onSort(col)} of a column header
UiSort ==
    /\ MayAct
    /\ \E col \in SortKeys : app' = Did(handleSort(app, col), "sort", col)
    /\ UNCHANGED appOnly

\* onPageChange={setPage} from a control of the table's pagination
UiPage ==
    /\ MayAct
    /\ HasBars
    /\ \E p \in (1..MaxPage) \ {app.page} :
          app' = Did(fetchAll([app EXCEPT !.page = p]), "page", "")
    /\ UNCHANGED appOnly

\* A load gets all its responses and none is a kpis error: the seven setters,
\* then finally.
LoadSucceeds ==
    /\ pc = "session"
    /\ \E n \in 1..Len(app.loads) :
          /\ app.loads[n].state = "pending"
          /\ app' = [app EXCEPT !.loads[n].state = "ok",
                                !.shown = DataOf(n, app.loads[n]),
                                !.loading = FALSE]
    /\ UNCHANGED appOnly

\* A load's fetch rejects or its kpis body is an error: catch, then finally.
LoadFails ==
    /\ pc = "session"
    /\ \E n \in 1..Len(app.loads) :
          /\ app.loads[n].state = "pending"
          /\ app' = [app EXCEPT !.loads[n].state = "failed",
                                !.error = Some("message"),
                                !.loading = FALSE]
    /\ UNCHANGED appOnly

NextSession ==
    \/ UiMount
    \/ UiRefresh
    \/ UiSelectL1
    \/ UiSelectL2
    \/ UiSelectL3
    \/ UiReset
    \/ UiBreadcrumb
    \/ UiBarClick
    \/ UiSort
    \/ UiPage
    \/ LoadSucceeds
    \/ LoadFails

SpecSession == InitSession /\ [][NextSession]_vars

Outstanding == {n \in 1..Len(app.loads) : app.loads[n].state = "pending"}
InSession == pc = "session" /\ app.issued >= 1

\* C23: once every issued load has completed, the last of them with success,
\* the data on display is the data of the load issued last: it is for the
\* current filters, page and sort.
C23_LatestLoadShown ==
    (InSession /\ Outstanding = {} /\ app.loads[app.issued].state = "ok") =>
        /\ app.shown.filters = app.filters
        /\ app.shown.page = app.page
        /\ app.shown.sortBy = app.sortBy
        /\ app.shown.sortDir = app.sortDir

\* C24: after a click on a bar, catL1 is empty or a category of level 1 and
\* catL2 is empty or a category of level 2.
C24_BarClickWritesOwnLevel ==
    (InSession /\ app.last[1] = "bar") =>
        /\ app.filters.catL1 \in {<<>>, CategoryAt(1)}
        /\ app.filters.catL2 \in {<<>>, CategoryAt(2)}

\* The filter state keeps the hierarchy of the category fields.
Hierarchy(filters) ==
    /\ filters.catL3 # <<>> => filters.catL2 # <<>>
    /\ filters.catL2 # <<>> => filters.catL1 # <<>>

C26_LoadingWhileOutstanding ==
    (InSession /\ Outstanding # {}) => app.loading

\* C27: a step that changes the filters or the sort sets the page to 1 and
\* issues a load for the new filters and sort with page 1; a click on the
\* header of the current sort column flips the direction, one on another
\* column selects it with direction desc.
C27_FilterOrSortChangeResetsPage ==
    [][pc = "session" =>
          /\ (\/ app'.filters # app.filters
              \/ app'.sortBy # app.sortBy
              \/ app'.sortDir # app.sortDir) =>
                /\ app'.page = 1
                /\ app'.issued = app.issued + 1
                /\ app'.loads[app'.issued] = SessionLoad(app')
                /\ app'.loads[app'.issued].page = 1
          /\ (app'.issued # app.issued /\ app'.last[1] = "sort") =>
                IF app'.last[2] = app.sortBy
                THEN /\ app'.sortBy = app.sortBy
                     /\ app'.sortDir # app.sortDir
                     /\ app'.sortDir \in {"asc", "desc"}
                ELSE /\ app'.sortBy = app'.last[2]
                     /\ app'.sortDir = "desc"]_vars

\* On page 2 a filter was changed: the load issued for it asks for page 1.
C27_Witness ==
    /\ InSession
    /\ app.issued >= 3
    /\ app.loads[app.issued - 1].page = 2
    /\ app.loads[app.issued].filters # app.loads[app.issued - 1].filters
    /\ app.loads[app.issued].page = 1
    /\ app.page = 1

-----------------------------------------------------------------------------
(* The auth routes and the guard of /api/po *)

\* The browsers, each with its session cookie.
MaxClients == 2
Clients == 1..MaxClients

\* Request paths that Express routes to the handlers mounted under /api/po:
\* routing does not tell upper case from lower case.
Path_kpis == <<"/", "a", "p", "i", "/", "p", "o", "/", "k", "p", "i", "s">>
Path_KPIS == <<"/", "A", "P", "I", "/", "p", "o", "/", "k", "p", "i", "s">>
Path_lines == <<"/", "a", "p", "i", "/", "p", "o", "/", "l", "i", "n", "e", "s">>
GuardedPaths == {Path_kpis, Path_KPIS, Path_lines}

LowerAll(s) == [i \in 1..Len(s) |-> Lower(s[i])]
\* app.use('/api/po', requireAuth) applies to the path.
MountedUnderApiPo(path) ==
    StartsWith(LowerAll(path), <<"/", "a", "p", "i", "/", "p", "o">>)

\* What a login form sends: the configured pair, another pair, or no fields.
Credentials == {"configured", "other", "absent"}

\* req.body.username === process.env.DASHBOARD_USER && (the same for the
\* password): with the variables unset, fields that are absent compare equal.
LoginMatches(configured, creds) ==
    IF configured THEN creds = "configured" ELSE creds = "absent"

Answer(kind, client, path, status, body, queries) ==
    [kind |-> kind, client |-> client, path |-> path, status |-> status,
     body |-> body, queries |-> queries]

\* The guard passing every request.
requireAuthOpen(production, authenticated, path) == "next"

\* requireAuth(req, res, next)
requireAuth(production, authenticated, path) ==
    IF ~production THEN "next"
    ELSE IF authenticated THEN "next"
    ELSE IF StartsWith(path, <<"/", "a", "p", "i", "/">>) THEN "401"
    ELSE "redirect"

InitAuth ==
    /\ query = NoQuery
    /\ line = SomeLine
    /\ built = NoBuilt
    /\ verdict = "none"
    /\ pc = "auth"
    /\ LinesIdle
    /\ orders = NoOrders
    /\ ares = NoAggRes
    /\ treq = NoTypeahead
    /\ picker = NoPicker
    /\ app = NoApp
    /\ inflight = NoInflight
    /\ \E production \in BOOLEAN, configured \in BOOLEAN :
          auth = [production |-> production, configured |-> configured,
                  store |-> [c \in Clients |-> FALSE], last |-> NoAnswer]

authOnly ==
    <<query, line, built, verdict, pc, linesVars, orders, ares, treq, picker, app, inflight>>

\* app.post('/api/auth/login')
AuthLogin ==
    /\ pc = "auth"
    /\ \E c \in Clients, creds \in Credentials :
          auth' = IF LoginMatches(auth.configured, creds)
                  THEN [auth EXCEPT !.store[c] = TRUE,
                                    !.last = Answer("login", c, <<>>, 302, "/", 0)]
                  ELSE [auth EXCEPT !.last = Answer("login", c, <<>>, 302,
                                                    "/login?error=1", 0)]
    /\ UNCHANGED authOnly

\* app.post('/api/auth/logout'): req.session.destroy
AuthLogout ==
    /\ pc = "auth"
    /\ \E c \in Clients :
          auth' = [auth EXCEPT !.store[c] = FALSE,
                               !.last = Answer("logout", c, <<>>, 302, "/login", 0)]
    /\ UNCHANGED authOnly

\* A request to a handler under /api/po: the guard, then the handler, whose
\* query returns its rows.
AuthRequest ==
    /\ pc = "auth"
    /\ \E c \in Clients, path \in GuardedPaths :
          /\ MountedUnderApiPo(path)
          /\ LET passed == requireAuth(auth.production, auth.store[c], path)
             IN  auth' = [auth EXCEPT !.last =
                            IF passed = "next"
                            THEN Answer("request", c, path, 200, "data", 1)
                            ELSE IF passed = "401"
                            THEN Answer("request", c, path, 401, "Unauthorised", 0)
                            ELSE Answer("request", c, path, 302, "/login", 0)]
    /\ UNCHANGED authOnly

NextAuth == AuthLogin \/ AuthLogout \/ AuthRequest

SpecAuth == InitAuth /\ [][NextAuth]_vars

Requested == pc = "auth" /\ auth.last.kind = "request"

\* In production a request is answered with data, and a query runs, only for
\* an authenticated session.
DataOnlyWhenAuthenticated ==
    (Requested /\ auth.production /\ ~auth.store[auth.last.client]) =>
        /\ auth.last.body # "data"
        /\ auth.last.queries = 0

UnderApiPo(path) == StartsWith(path, <<"/", "a", "p", "i", "/", "p", "o", "/">>)

CaseVariantRedirected ==
    (Requested /\ ~UnderApiPo(auth.last.path) /\ auth.production
       /\ ~auth.store[auth.last.client]) =>
        auth.last.status = 302 /\ auth.last.queries = 0

-----------------------------------------------------------------------------
(* The aggregations by group: /api/po/monthly and /api/po/by-category *)

Uncategorized == <<"U", "n", "c", "a", "t", "e", "g", "o", "r", "i", "z", "e", "d">>

\* COALESCE(NULLIF(split_part(pc.complete_name, ' / ', n), ''), 'Uncategorized')
CategoryOrUncategorized(l, n) ==
    IF IsSome(CategoryLevel(l, n)) THEN Get(CategoryLevel(l, n)) ELSE Uncategorized

\* One row of the monthly statement: the group of month m and category c.
MonthlyRow(m, c, rows) ==
    LET g == {r \in rows : MonthKey(r) = m /\ CategoryOrUncategorized(r.l, 1) = c}
    IN  [month             |-> m,
         category_l1       |-> c,
         ordered_value_thb |-> OrderedValue(g),
         line_count        |-> Cardinality(g)]

\* GROUP BY 1, 2
MonthlyRows(rows) ==
    {MonthlyRow(k[1], k[2], rows) :
        k \in {<<MonthKey(r), CategoryOrUncategorized(r.l, 1)>> : r \in rows}}

MonthLess(a, b) == a[1] < b[1] \/ (a[1] = b[1] /\ a[2] < b[2])

\* ORDER BY 1, 2
RECURSIVE ByMonthAndCategory(_)
ByMonthAndCategory(rs) ==
    IF rs = {} THEN <<>>
    ELSE LET first == CHOOSE m \in rs : \A o \in rs \ {m} :
                         \/ MonthLess(m.month, o.month)
                         \/ m.month = o.month /\ TextLess(m.category_l1, o.category_l1)
         IN  <<first>> \o ByMonthAndCategory(rs \ {first})

\* pool.query(sql, params) of /api/po/monthly and what the handler answers.
Monthly(b, rows) ==
    IF StatementFails(b)
    THEN Failed("monthly", 1)
    ELSE Answered("monthly", ByMonthAndCategory(MonthlyRows(Matching(b, rows))), 1)

\* const level = req.query.catL2 ? 3 : req.query.catL1 ? 2 : 1
CatExprLevel(q) == IF Truthy(q.catL2) THEN 3 ELSE IF Truthy(q.catL1) THEN 2 ELSE 1

\* The group taken at the first level whatever the level of the names.
ByCategoryRowAtL1(c, level, rows) ==
    LET g == {r \in rows : CategoryOrUncategorized(r.l, 1) = c}
    IN  [category |-> c, total_value |-> OrderedValue(g), line_count |-> Cardinality(g)]

\* One row of the by-category statement: the group of category c at the level.
ByCategoryRow(c, level, rows) ==
    LET g == {r \in rows : CategoryOrUncategorized(r.l, level) = c}
    IN  [category |-> c, total_value |-> OrderedValue(g), line_count |-> Cardinality(g)]

\* GROUP BY 1
ByCategoryRows(level, rows) ==
    {ByCategoryRow(c, level, rows) :
        c \in {CategoryOrUncategorized(r.l, level) : r \in rows}}

\* ORDER BY total_value DESC: every order the statement may return.
RECURSIVE ByTotalValueDesc(_)
ByTotalValueDesc(rs) ==
    IF rs = {} THEN {<<>>}
    ELSE UNION {{<<r>> \o rest : rest \in ByTotalValueDesc(rs \ {r})} :
                    r \in {m \in rs : \A o \in rs :
                              ~KeyLess(m.total_value, o.total_value)}}

\* The order lines of the tables: categories of one, two and three levels and
\* none, three months, a draft order, a zero quantity and a return.
GroupPool ==
    {OrderLine(1, Line("purchase", Date(2025, 1, 15), Some(Path_AB), Some(Str_S),
                       None, None, 1), Some(10), Some(5), Some(10), Some(5), None),
     OrderLine(2, Line("done", Date(2025, 2, 10), Some(Path_AC), Some(Str_S),
                       None, None, 1), Some(20), Some(5), Some(5), Some(0), None),
     OrderLine(3, Line("purchase", Date(2025, 2, 28), Some(Path_A), Some(Str_S),
                       None, None, 1), Some(0), Some(5), Some(0), Some(0), None),
     OrderLine(4, Line("purchase", Date(2025, 1, 20), None, Some(Str_S),
                       None, None, 1), Some(3), Some(7), Some(1), Some(1), None),
     OrderLine(5, Line("draft", Date(2025, 3, 31), Some(Path_AB), Some(Str_S),
                       None, None, 1), Some(10), Some(5), Some(0), Some(0), None),
     OrderLine(6, Line("purchase", Date(2025, 1, 31), Some(Path_ABC), Some(Str_S),
                       None, None, 1), Some(0 - 10), Some(5), Some(0), Some(0), None),
     OrderLine(7, Line("purchase", Date(2025, 3, 1), Some(Str_B), Some(Str_S),
                       None, None, 1), Some(3), Some(1), Some(1), Some(2), None)}

GroupTables == {t \in SUBSET GroupPool : Cardinality(t) <= MaxOrderLines}

GroupQueries ==
    {NoQuery,
     [NoQuery EXCEPT !.catL1 = Some(Str_A)],
     [NoQuery EXCEPT !.catL1 = Some(Str_A), !.catL2 = Some(Str_B)],
     [NoQuery EXCEPT !.dateTo = Some(Month_2025_01)]}

InitGroups ==
    /\ query \in GroupQueries
    /\ line = SomeLine
    /\ built = NoBuilt
    /\ verdict = "none"
    /\ pc = "groups"
    /\ LinesIdle
    /\ orders \in GroupTables
    /\ ares = NoAggRes
    /\ treq = NoTypeahead
    /\ picker = NoPicker
    /\ app = NoApp
    /\ inflight = NoInflight
    /\ auth = NoAuth

\* app.get('/api/po/monthly')
MonthlyHandle ==
    /\ pc = "groups"
    /\ built' = buildWhere(query)
    /\ ares' = Monthly(buildWhere(query), orders)
    /\ pc' = "answered"
    /\ UNCHANGED <<query, line, verdict, linesVars, orders, treq, picker, app, inflight, auth>>

\* app.get('/api/po/by-category')
ByCategoryHandle ==
    /\ pc = "groups"
    /\ built' = buildWhere(query)
    /\ IF StatementFails(buildWhere(query))
       THEN ares' = Failed("by-category", 1)
       ELSE \E body \in ByTotalValueDesc(ByCategoryRows(CatExprLevel(query),
                                            Matching(buildWhere(query), orders))) :
               ares' = Answered("by-category", body, 1)
    /\ pc' = "answered"
    /\ UNCHANGED <<query, line, verdict, linesVars, orders, treq, picker, app, inflight, auth>>

NextGroups == MonthlyHandle \/ ByCategoryHandle

SpecGroups == InitGroups /\ [][NextGroups]_vars

GroupsAnswered == pc = "answered" /\ ares.endpoint \in {"monthly", "by-category"}

\* The value column of a row of the answer.
ValueColumn(row) ==
    IF ares.endpoint = "monthly" THEN row.ordered_value_thb ELSE row.total_value

\* C29: for one dataset and one filter set, the ordered values of the rows of
\* /api/po/monthly, and the total values of the rows of /api/po/by-category,
\* add up to total_ordered_value of /api/po/kpis, and their line counts add
\* up to its total_lines.
C29_GroupedSumsEqualKpis ==
    GroupsAnswered =>
        LET kpis == Kpis(buildWhere(query), orders)
        IN  /\ ares.status = 200
            /\ kpis.status = 200
            /\ SumOf({<<i, ValueOr0(ValueColumn(ares.body[i]))>> : i \in 1..Len(ares.body)})
                  = kpis.body.total_ordered_value
            /\ SumOf({<<i, ares.body[i].line_count>> : i \in 1..Len(ares.body)})
                  = kpis.body.total_lines

\* Under a catL1 filter the lines fall into several groups, one of them
\* 'Uncategorized', beside a line the filter leaves out.
C29_Witness ==
    /\ GroupsAnswered
    /\ ares.endpoint = "by-category"
    /\ Truthy(query.catL1)
    /\ Len(ares.body) >= 2
    /\ \E i \in 1..Len(ares.body) : ares.body[i].category = Uncategorized
    /\ Kpis(buildWhere(query), orders).body.total_lines < Cardinality(orders)
    /\ Kpis(buildWhere(query), orders).body.total_ordered_value # 0

-----------------------------------------------------------------------------
(* DataTable: the pagination controls *)

\* Most rows the lines response counts, and the largest page size.
MaxTotal == 14
MaxPagerSize == 3

Smaller(a, b) == IF a < b THEN a ELSE b
Larger(a, b) == IF a > b THEN a ELSE b

\* const totalPages = Math.ceil(total / pageSize)
totalPages(total, pageSize) == (total + pageSize - 1) \div pageSize

\* The window following the page without stopping at the last page.
startUnclamped(page, pages) == Larger(1, page - 2)

\* const start = Math.max(1, Math.min(page - 2, totalPages - 4))
start(page, pages) == Larger(1, Smaller(page - 2, pages - 4))

\* Array.from({ length: Math.min(5, totalPages) }, (_, i) => start + i)
PageButtons(page, pages) ==
    [i \in 1..Smaller(5, pages) |-> start(page, pages) + (i - 1)]

\* {totalPages > 1 && ( ... )}
PagerRendered(a) == totalPages(a.total, a.pageSize) > 1

\* disabled={page <= 1} and disabled={page >= totalPages}
BackEnabled(a) == ~(a.page <= 1)
ForwardEnabled(a) == ~(a.page >= totalPages(a.total, a.pageSize))

\* onPageChange(p): setPage(p)
onPageChange(a, p, control) == [a EXCEPT !.page = p, !.last = control]

InitPager ==
    /\ query = NoQuery
    /\ line = SomeLine
    /\ built = NoBuilt
    /\ verdict = "none"
    /\ pc = "pager"
    /\ LinesIdle
    /\ orders = NoOrders
    /\ ares = NoAggRes
    /\ treq = NoTypeahead
    /\ picker = NoPicker
    /\ inflight = NoInflight
    /\ auth = NoAuth
    /\ \E total \in 0..MaxTotal, pageSize \in 1..MaxPagerSize :
          \E page \in 1..Larger(1, totalPages(total, pageSize)) :
             app = [total |-> total, pageSize |-> pageSize, page |-> page,
                    last |-> "none"]

pagerOnly ==
    <<query, line, built, verdict, pc, linesVars, orders, ares, treq, picker, inflight, auth>>

\* «
PagerFirst ==
    /\ pc = "pager"
    /\ PagerRendered(app)
    /\ BackEnabled(app)
    /\ app' = onPageChange(app, 1, "first")
    /\ UNCHANGED pagerOnly

\* ‹
PagerPrevious ==
    /\ pc = "pager"
    /\ PagerRendered(app)
    /\ BackEnabled(app)
    /\ app' = onPageChange(app, app.page - 1, "previous")
    /\ UNCHANGED pagerOnly

\* A page number button
PagerNumber ==
    /\ pc = "pager"
    /\ PagerRendered(app)
    /\ LET buttons == PageButtons(app.page, totalPages(app.total, app.pageSize))
       IN  \E i \in 1..Len(buttons) : app' = onPageChange(app, buttons[i], "number")
    /\ UNCHANGED pagerOnly

\* ›
PagerNext ==
    /\ pc = "pager"
    /\ PagerRendered(app)
    /\ ForwardEnabled(app)
    /\ app' = onPageChange(app, app.page + 1, "next")
    /\ UNCHANGED pagerOnly

\* »
PagerLast ==
    /\ pc = "pager"
    /\ PagerRendered(app)
    /\ ForwardEnabled(app)
    /\ app' = onPageChange(app, totalPages(app.total, app.pageSize), "last")
    /\ UNCHANGED pagerOnly

NextPager == PagerFirst \/ PagerPrevious \/ PagerNumber \/ PagerNext \/ PagerLast

SpecPager == InitPager /\ [][NextPager]_vars

\* The pages the enabled controls lead to.
ControlTargets(a) ==
    LET pages == totalPages(a.total, a.pageSize)
        buttons == PageButtons(a.page, pages)
    IN  {buttons[i] : i \in 1..Len(buttons)}
           \cup (IF BackEnabled(a) THEN {1, a.page - 1} ELSE {})
           \cup (IF ForwardEnabled(a) THEN {a.page + 1, pages} ELSE {})

\* C30: with more than one page and the page within 1..totalPages, every page
\* number button is within 1..totalPages, the buttons are min(5, totalPages)
\* consecutive pages of which one is the current page, and no enabled control
\* leads, or has led, outside 1..totalPages.
C30_PagerStaysInRange ==
    (pc = "pager" /\ PagerRendered(app)) =>
        LET pages == totalPages(app.total, app.pageSize)
            buttons == PageButtons(app.page, pages)
        IN  /\ app.page \in 1..pages
            /\ Len(buttons) = Smaller(5, pages)
            /\ \A i \in 1..Len(buttons) : buttons[i] \in 1..pages
            /\ \A i \in 1..(Len(buttons) - 1) : buttons[i + 1] = buttons[i] + 1
            /\ \E i \in 1..Len(buttons) : buttons[i] = app.page
            /\ ControlTargets(app) \subseteq 1..pages

\* The last of more than five pages, reached by a control: the window is the
\* last five pages.
C30_Witness ==
    /\ pc = "pager"
    /\ app.last = "number"
    /\ totalPages(app.total, app.pageSize) > 5
    /\ app.page = totalPages(app.total, app.pageSize)
    /\ PageButtons(app.page, app.page)[1] = app.page - 4
    /\ PageButtons(app.page, app.page)[5] = app.page
    /\ ~ForwardEnabled(app)

=============================================================================
